---- MODULE Spec2Model ----
(***************************************************************************)
(* Local WebApp Monitor: the Store (database/db.js), the Health Monitor    *)
(* (agents/healthChecker.js), the Port Probe (agents/portScanner.js), the   *)
(* Identifier (agents/aiAgent.js), the Event Bus and the request handlers  *)
(* of server.js that drive them.                                           *)
(*                                                                         *)
(* Node runs every handler on one event loop and better-sqlite3 is         *)
(* synchronous, so the code between two awaits of a handler is one atomic  *)
(* step: each action below is one such segment, from the resolution of an  *)
(* await (or the arrival of the request) to the next await.                *)
(***************************************************************************)
EXTENDS Integers, Sequences, FiniteSets, Bags, TLC

\* Bounds of the model.
MaxOps == 1     \* requests and timer firings one behaviour starts
MaxClock == 1   \* seconds by which CURRENT_TIMESTAMP advances

\* LIMIT of the getScanHistory statement.
HistoryLimit == 50

NULL == "<null>"
\* JavaScript truthiness of a value that is null or a string.
Truthy(x) == x # NULL /\ x # ""

(***************************************************************************)
(* URLs.  A URL is the record of its scheme, host and explicit port        *)
(* (NoPort when the text names none); BadUrl is a text `new URL` rejects.  *)
(***************************************************************************)
NoPort == 0
BadUrl == [scheme |-> "", host |-> "not a url", port |-> NoPort]
IsValidUrl(u) == u.scheme \in {"http", "https"}
DefaultPort(scheme) == IF scheme = "https" THEN 443 ELSE 80
\* `new URL(u).port`: empty when the port is the default of the scheme.
URL_port(u) == IF u.port = DefaultPort(u.scheme) THEN NoPort ELSE u.port

Http(host, port) == [scheme |-> "http", host |-> host, port |-> port]

(***************************************************************************)
(* Health Monitor                                                          *)
(***************************************************************************)
NON_HTTP_PORTS ==
    { 3306, 5432, 27017, 6379, 11211, 9042, 7000, 7001, 5000, 8888,
      5672, 1883, 8080, 61613, 61614,
      21, 22, 23,
      25, 110, 143, 465, 587, 993, 995,
      2049, 445, 139, 138, 137, 161, 162, 514, 515 }

\* url.replace(/localhost|127\.0\.0\.1/g, host) on a URL without a path.
ReplaceLocalHost(url, host) ==
    IF url.host \in {"localhost", "127.0.0.1"} THEN [url EXCEPT !.host = host] ELSE url

getHealthCheckHost(url, cfgTargetHost, docker) ==
    LET targetHost == IF Truthy(cfgTargetHost) THEN cfgTargetHost ELSE "localhost"
    IN  IF targetHost # "localhost" /\ targetHost # "127.0.0.1"
        THEN ReplaceLocalHost(url, targetHost)
        ELSE IF docker THEN ReplaceLocalHost(url, "host.docker.internal")
        ELSE url

\* NON_HTTP_PORTS.includes(parseInt(port)): parseInt('') is NaN, in no list.
isNonHttpPort(port) == port # NoPort /\ port \in NON_HTTP_PORTS

\* What axios.get can end with.  kind "response": a response with statusCode
\* (htmlBody: the content type is text/html and the body a non-empty string);
\* kind "error": a rejection with error.code errCode, hasResponse when
\* error.response is set (then statusCode is error.response.status).
\* elapsed is Date.now() - startTime.
Response(code, htmlBody, elapsed) ==
    [kind |-> "response", statusCode |-> code, errCode |-> "", hasResponse |-> TRUE,
     htmlBody |-> htmlBody, elapsed |-> elapsed]
Failure(errCode, hasResponse, code, elapsed) ==
    [kind |-> "error", statusCode |-> code, errCode |-> errCode,
     hasResponse |-> hasResponse, htmlBody |-> FALSE, elapsed |-> elapsed]

\* ResponseStatus with client errors reported as a status of their own.
ResponseStatus_clientError(code) ==
    IF code >= 200 /\ code < 400 THEN "online"
    ELSE IF code >= 400 /\ code < 500 THEN "error"
    ELSE IF code >= 500 THEN "online"
    ELSE "unknown"

\* The status the response branch assigns (status starts as 'unknown').
ResponseStatus(code) ==
    IF code >= 200 /\ code < 400 THEN "online"
    ELSE IF code >= 400 /\ code < 500 THEN "online"
    ELSE IF code >= 500 THEN "online"
    ELSE "unknown"

\* ErrorStatus without the test of the port list.
ErrorStatus_anyPort(o, port) ==
    IF o.errCode = "ECONNREFUSED" THEN "offline"
    ELSE IF o.errCode = "ETIMEDOUT" \/ o.errCode = "ECONNABORTED" THEN "offline"
    ELSE IF o.hasResponse THEN "online"
    ELSE "unknown"

\* ErrorStatus without the branch of the timeouts.
ErrorStatus_noTimeout(o, port) ==
    IF o.errCode = "ECONNREFUSED" THEN "offline"
    ELSE IF o.hasResponse THEN "online"
    ELSE IF isNonHttpPort(port) THEN "unknown"
    ELSE "offline"

\* The status the catch branch assigns.
ErrorStatus(o, port) ==
    IF o.errCode = "ECONNREFUSED" THEN "offline"
    ELSE IF o.errCode = "ETIMEDOUT" \/ o.errCode = "ECONNABORTED" THEN "offline"
    ELSE IF o.hasResponse THEN "online"
    ELSE IF isNonHttpPort(port) THEN "unknown"
    ELSE "offline"

\* HealthChecker.check(url) up to its await: the locals of the call.  status
\* "pending" marks the call as suspended in axios.get.
checkStart(url, cfgTargetHost, docker) ==
    LET checkUrl == getHealthCheckHost(url, cfgTargetHost, docker)
    IN  [ url |-> url,
          port |-> IF IsValidUrl(checkUrl) THEN URL_port(checkUrl) ELSE 80,
          status |-> "pending", statusCode |-> 0, responseTime |-> 0,
          isHttpResponse |-> TRUE, metaData |-> FALSE ]

\* HealthChecker.check(url) from the outcome o of axios.get to its return.
checkEnd(c, o) ==
    [ c EXCEPT
        !.status = IF o.kind = "response" THEN ResponseStatus(o.statusCode)
                   ELSE ErrorStatus(o, c.port),
        !.statusCode = IF o.kind = "response" \/ o.hasResponse THEN o.statusCode ELSE 0,
        !.responseTime = o.elapsed,
        !.isHttpResponse =
            IF o.kind = "response" THEN TRUE
            ELSE IF o.errCode \in {"ECONNREFUSED", "ETIMEDOUT", "ECONNABORTED"} THEN FALSE
            ELSE IF o.hasResponse THEN TRUE
            ELSE ~isNonHttpPort(c.port),
        !.metaData = (o.kind = "response" /\ o.htmlBody) ]

\* HealthChecker.check(url) when axios.get ends with outcome o.
check(url, cfgTargetHost, docker, o) == checkEnd(checkStart(url, cfgTargetHost, docker), o)

(***************************************************************************)
(* Store.  d is the database: apps maps the id of each row of table apps   *)
(* to the row, history is table scan_history in rowid order, seq is the    *)
(* AUTOINCREMENT counter of apps.  now is CURRENT_TIMESTAMP.               *)
(***************************************************************************)
\* A DATETIME column that is still NULL; CURRENT_TIMESTAMP starts above it.
NoTime == 0
\* A screenshot column that is still NULL; a captured image is a number above.
NoImage == 0
NoApps == [i \in {} |-> NULL]
EmptyDb == [apps |-> NoApps, history |-> <<>>, seq |-> 0]

AppIds(d) == DOMAIN d.apps

\* getAppByUrl.get(url): the ids of the rows with that url.
IdsByUrl(d, url) == {id \in AppIds(d) : d.apps[id].url = url}
HasUrl(d, url) == IdsByUrl(d, url) # {}
getAppByUrl(d, url) == d.apps[CHOOSE id \in IdsByUrl(d, url) : TRUE]

\* A new row of table apps: id AUTOINCREMENT, status DEFAULT 'unknown',
\* discovered_at CURRENT_TIMESTAMP.
newAppRow(d, url, port, name, category, now) ==
    LET id == d.seq + 1
        row == [id |-> id, url |-> url, port |-> port, name |-> name,
                category |-> category, status |-> "unknown",
                discovered_at |-> now, last_checked_at |-> NoTime,
                screenshot |-> NoImage]
    IN  [d EXCEPT !.apps = [i \in AppIds(d) \cup {id} |->
                                IF i = id THEN row ELSE d.apps[i]],
                  !.seq = id]

\* No row: what a handler holds before addApp has returned one.
NoRow ==
    [id |-> 0, url |-> BadUrl, port |-> NoPort, name |-> NULL, category |-> NULL,
     status |-> "unknown", discovered_at |-> NoTime, last_checked_at |-> NoTime,
     screenshot |-> NoImage]

\* INSERT OR IGNORE INTO apps: url is UNIQUE.
insertApp(d, url, port, name, category, now) ==
    IF HasUrl(d, url) THEN d ELSE newAppRow(d, url, port, name, category, now)

updateAppName(d, name, url) ==
    [d EXCEPT !.apps = [i \in AppIds(d) |->
        IF d.apps[i].url = url THEN [d.apps[i] EXCEPT !.name = name] ELSE d.apps[i]]]

updateAppCategory(d, category, url) ==
    [d EXCEPT !.apps = [i \in AppIds(d) |->
        IF d.apps[i].url = url THEN [d.apps[i] EXCEPT !.category = category] ELSE d.apps[i]]]

updateAppStatus(d, status, url, now) ==
    [d EXCEPT !.apps = [i \in AppIds(d) |->
        IF d.apps[i].url = url
        THEN [d.apps[i] EXCEPT !.status = status, !.last_checked_at = now]
        ELSE d.apps[i]]]

insertScanHistory(d, appId, status, responseTimeMs, now) ==
    [d EXCEPT !.history = Append(@, [app_id |-> appId, status |-> status,
                                     response_time_ms |-> responseTimeMs,
                                     checked_at |-> now])]

\* `Port ${port}`
PortName(port) == IF port = NoPort THEN "Port " ELSE "Port " \o ToString(port)

\* addApp without the lookup, on a table whose url is not UNIQUE.
addApp_noDedupe(d, url, port, name, category, now) ==
    newAppRow(d, url, port,
              IF Truthy(name) THEN name ELSE PortName(port),
              IF Truthy(category) THEN category ELSE "Unknown", now)

\* addApp that writes the name and category it is given over the stored ones.
addApp_overwrite(d, url, port, name, category, now) ==
    IF HasUrl(d, url)
    THEN LET d1 == IF Truthy(name) THEN updateAppName(d, name, url) ELSE d
         IN  IF Truthy(category) THEN updateAppCategory(d1, category, url) ELSE d1
    ELSE insertApp(d, url, port,
                   IF Truthy(name) THEN name ELSE PortName(port),
                   IF Truthy(category) THEN category ELSE "Unknown", now)

\* addApp as INSERT OR REPLACE: the row of a known url is replaced by a new one.
addApp_replace(d, url, port, name, category, now) ==
    LET kept == [d EXCEPT !.apps = [i \in AppIds(d) \ IdsByUrl(d, url) |-> d.apps[i]]]
    IN  newAppRow(kept, url, port,
                  IF Truthy(name) THEN name ELSE PortName(port),
                  IF Truthy(category) THEN category ELSE "Unknown", now)

\* database.addApp: the database afterwards.
addApp(d, url, port, name, category, now) ==
    IF HasUrl(d, url)
    THEN LET existing == getAppByUrl(d, url)
             d1 == IF Truthy(name) /\ ~Truthy(existing.name)
                   THEN updateAppName(d, name, url) ELSE d
         IN  IF Truthy(category) /\ ~Truthy(existing.category)
             THEN updateAppCategory(d1, category, url) ELSE d1
    ELSE insertApp(d, url, port,
                   IF Truthy(name) THEN name ELSE PortName(port),
                   IF Truthy(category) THEN category ELSE "Unknown", now)

\* addApp that returns the row it found, and none for the row it inserts.
addAppReturn_existing(d, url, port, name, category, now) ==
    IF HasUrl(d, url) THEN getAppByUrl(d, url) ELSE NoRow

\* database.addApp: the row it returns, which is the row found before any
\* update, or the row read back after the insert.
addAppReturn(d, url, port, name, category, now) ==
    IF HasUrl(d, url) THEN getAppByUrl(d, url)
    ELSE getAppByUrl(addApp(d, url, port, name, category, now), url)

\* recordScan that appends the history row and leaves the app row alone.
recordScan_historyOnly(d, url, status, responseTimeMs, now) ==
    IF HasUrl(d, url)
    THEN insertScanHistory(d, getAppByUrl(d, url).id, status, responseTimeMs, now)
    ELSE d

\* database.recordScan
recordScan(d, url, status, responseTimeMs, now) ==
    IF HasUrl(d, url)
    THEN LET app == getAppByUrl(d, url)
         IN  insertScanHistory(updateAppStatus(d, status, url, now),
                               app.id, status, responseTimeMs, now)
    ELSE d

\* removeApp without the DELETE FROM scan_history.
removeApp_noCascade(d, id) ==
    [d EXCEPT !.apps = [i \in AppIds(d) \ {id} |-> d.apps[i]]]

\* database.removeApp: DELETE FROM scan_history, then DELETE FROM apps.
removeApp(d, id) ==
    LET Other(r) == r.app_id # id
    IN  [d EXCEPT !.history = SelectSeq(@, Other),
                  !.apps = [i \in AppIds(d) \ {id} |-> d.apps[i]]]

\* updateScreenshot that stores nothing.
updateScreenshot_skip(d, id, image) == d

\* database.updateScreenshot: UPDATE apps SET screenshot = ? WHERE id = ?
updateScreenshot(d, id, image) ==
    [d EXCEPT !.apps = [i \in AppIds(d) |->
        IF i = id THEN [d.apps[i] EXCEPT !.screenshot = image] ELSE d.apps[i]]]

\* database.getApp(id) finds a row.
HasApp(d, id) == id \in AppIds(d)

\* getAllApps.all(): ORDER BY discovered_at DESC leaves the order of rows with
\* equal discovered_at open; every order the statement may return.
getAllApps(d) ==
    LET n == Cardinality(AppIds(d))
    IN  { s \in [1..n -> AppIds(d)] :
            /\ \A i, j \in 1..n : i # j => s[i] # s[j]
            /\ \A i, j \in 1..n :
                  i < j => d.apps[s[i]].discovered_at >= d.apps[s[j]].discovered_at }

\* getOnlineApps.all(): the online rows, ORDER BY last_checked_at DESC; every
\* order the statement may return.
getOnlineApps(d) ==
    LET ids == {i \in AppIds(d) : d.apps[i].status = "online"}
        n == Cardinality(ids)
    IN  { s \in [1..n -> ids] :
            /\ \A i, j \in 1..n : i # j => s[i] # s[j]
            /\ \A i, j \in 1..n :
                  i < j => d.apps[s[i]].last_checked_at >= d.apps[s[j]].last_checked_at }

\* The rows of scan_history of one app, in rowid order.
HistoryOf(d, appId) == LET Mine(r) == r.app_id = appId IN SelectSeq(d.history, Mine)

Min(a, b) == IF a < b THEN a ELSE b

\* getScanHistory.all(appId): ORDER BY checked_at DESC LIMIT 50 leaves the
\* order of rows with equal checked_at open; every list the statement may
\* return, as lists of rowid-order positions in HistoryOf(d, appId).
getScanHistoryPositions(d, appId) ==
    LET rows == HistoryOf(d, appId)
        n == Len(rows)
        k == Min(n, HistoryLimit)
    IN  { s \in [1..k -> 1..n] :
            /\ \A i, j \in 1..k : i # j => s[i] # s[j]
            /\ \A i, j \in 1..k : i < j => rows[s[i]].checked_at >= rows[s[j]].checked_at
            /\ \A i \in 1..k : \A m \in 1..n :
                  (\A j \in 1..k : s[j] # m) => rows[s[i]].checked_at >= rows[m].checked_at }

getScanHistory(d, appId) ==
    { [i \in DOMAIN s |-> HistoryOf(d, appId)[s[i]]] : s \in getScanHistoryPositions(d, appId) }

\* getStats that counts every App that is not online as offline.
getStats_notOnline(d) ==
    LET Count(st) == Cardinality({i \in AppIds(d) : d.apps[i].status = st})
    IN  [total |-> Cardinality(AppIds(d)), online |-> Count("online"),
         offline |-> Cardinality(AppIds(d)) - Count("online"), unknown |-> Count("unknown")]

\* database.getStats
getStats(d) ==
    LET Count(st) == Cardinality({i \in AppIds(d) : d.apps[i].status = st})
    IN  [total |-> Cardinality(AppIds(d)), online |-> Count("online"),
         offline |-> Count("offline"), unknown |-> Count("unknown")]

(***************************************************************************)
(* Inputs of the model                                                     *)
(***************************************************************************)
\* The servers a port probe can report: `${protocol}://127.0.0.1:${port}`.
\* 3000 is a port outside NON_HTTP_PORTS, 8080 one inside it.
U3000 == Http("127.0.0.1", 3000)
U8080 == Http("127.0.0.1", 8080)
Urls == {U3000, U8080}

\* The lists a probe can return: quickScan probes commonPorts in list order
\* (8080 before 3000), scan the configured range in ascending order.
Discovered(kind) ==
    IF kind = "full"
    THEN { <<>>, <<U3000>>, <<U8080>>, <<U3000, U8080>> }
    ELSE { <<>>, <<U3000>>, <<U8080>>, <<U8080, U3000>> }

\* {name, category} results of AIAgent.identifyApp: both are non-empty.
Identifications ==
    { [name |-> "Grafana", category |-> "Monitoring"],
      [name |-> "Tomcat/Java App", category |-> "Development"] }

\* name and category of the body of POST /api/apps.
Bodies ==
    { [name |-> NULL, category |-> NULL], [name |-> "", category |-> ""],
      [name |-> "My App", category |-> "Tools"] }

\* The outcomes of axios.get the handlers are run against: a response takes
\* 120 ms, a rejection 7 ms.
Outcomes ==
    { Response(150, FALSE, 120), Response(200, TRUE, 120), Response(404, FALSE, 120),
      Failure("ECONNREFUSED", FALSE, 0, 7), Failure("ECONNRESET", FALSE, 0, 7) }

\* process.env.DOCKER_CONTAINER of the deployment the handlers run in.
isDocker == FALSE
LanHost == "192.168.1.50"

(***************************************************************************)
(* Requests.  A request is the record of its X-Forwarded-Host header (the  *)
(* hosts it lists; <<>> when the header is absent) and of its Host header. *)
(* A host is its name or, for a dotted address, its decimal groups (the    *)
(* name is then ""), with the port that follows it.                        *)
(***************************************************************************)
Named(name, port) == [name |-> name, groups |-> <<>>, port |-> port]
Dotted(groups, port) == [name |-> "", groups |-> groups, port |-> port]
Request(forwarded, host) == [forwarded |-> forwarded, host |-> host]

\* The text of dotted groups.
RECURSIVE Join(_)
Join(groups) ==
    IF groups = <<>> THEN ""
    ELSE IF Len(groups) = 1 THEN ToString(groups[1])
    ELSE ToString(groups[1]) \o "." \o Join(Tail(groups))

\* firstHost.replace(/:\d+$/, '')
hostOnly(h) == IF h.name # "" THEN h.name ELSE Join(h.groups)

\* extractLanHostFromRequest that trusts every dotted address.
extractLanHostFromRequest_anyAddress(req) ==
    LET firstHost == IF req.forwarded # <<>> THEN req.forwarded[1] ELSE req.host
    IN  IF firstHost.name = "" /\ Len(firstHost.groups) = 4
        THEN hostOnly(firstHost) ELSE NULL

\* extractLanHostFromRequest(req): the first host of X-Forwarded-Host, else
\* of Host, when /^192\.168\.\d{1,3}\.\d{1,3}$/ matches it without its port.
extractLanHostFromRequest(req) ==
    LET firstHost == IF req.forwarded # <<>> THEN req.forwarded[1] ELSE req.host
        g == firstHost.groups
    IN  IF /\ firstHost.name = ""
           /\ Len(g) = 4
           /\ g[1] = 192 /\ g[2] = 168
           /\ g[3] < 1000 /\ g[4] < 1000
        THEN hostOnly(firstHost) ELSE NULL

\* getResponseTargetHost that learns the host of every LAN request.
getResponseTargetHost_always(cfgTargetHost, req) ==
    IF extractLanHostFromRequest(req) # NULL THEN extractLanHostFromRequest(req)
    ELSE cfgTargetHost

\* getResponseTargetHost(req): config.targetHost after the call.  A
\* configured host other than 'localhost' is returned as it is; else the LAN
\* host of the request, if it has one, is stored as config.targetHost.
getResponseTargetHost(cfgTargetHost, req) ==
    IF Truthy(cfgTargetHost) /\ cfgTargetHost # "localhost" THEN cfgTargetHost
    ELSE IF extractLanHostFromRequest(req) # NULL THEN extractLanHostFromRequest(req)
    ELSE cfgTargetHost

\* The requests the handlers are run against: one sent to the dashboard on
\* the machine itself, one sent to its LAN address.  NoRequest stands in the
\* handlers that no request started.
LocalRequest == Request(<<>>, Named("localhost", 3000))
LanRequest == Request(<<>>, Dotted(<<192, 168, 1, 50>>, 3000))
Requests == {LocalRequest, LanRequest}
NoRequest == Request(<<>>, Named("", NoPort))

(***************************************************************************)
(* State                                                                   *)
(***************************************************************************)
VARIABLES
    db,          \* the Store
    clock,       \* CURRENT_TIMESTAMP, in seconds
    targetHost,  \* config.targetHost
    tasks,       \* the handlers suspended at an await, as a bag
    ops,         \* requests and timer firings the behaviour may still start
    emitted,     \* the events the last step passed to broadcast(), in order
    answer,      \* the status code the last step answered its request with
    probe,       \* the call of check() under study (ProbeSpec)
    batch,       \* the call of checkAll() under study (BatchSpec)
    scan,        \* the call of scan() or quickScan() under study (ScanSpec)
    ident,       \* the call of identifyApp() under study (IdentSpec)
    hub          \* the Socket.IO server io and its observers (HubSpec)

vars == <<db, clock, targetHost, tasks, ops, emitted, answer, probe, batch, scan, ident, hub>>

\* The components whose operations are studied on their own, outside the
\* handlers of server.js.
studies == <<probe, batch, scan, ident, hub>>

\* The payload of broadcast(data): type is data.type; url, id, n, m and ok
\* carry the fields of the payload that the type has (the stored url of its
\* app, its appId, found / updated / online, offline, success), status the
\* status of the app of an app_discovered, app_added or app_updated.
Event(type, url, id, n, m, ok) ==
    [type |-> type, url |-> url, id |-> id, n |-> n, m |-> m, ok |-> ok, status |-> ""]
Plain(type) == Event(type, BadUrl, 0, 0, 0, TRUE)
Types(events) == [k \in DOMAIN events |-> events[k].type]
\* { type, app: {...app, url: convertToLANUrl(app.url, lanIp)} }
AppEvent(type, app) == [Event(type, app.url, app.id, 0, 0, TRUE) EXCEPT !.status = app.status]

\* No response sent.
NoAnswer == 0

\* A suspended handler: kind names the handler, pc the await it is at, urls
\* the discovered servers or the url of the request, i the server being
\* processed (for POST /api/ai/identify/:id the :id of the request; for a
\* screenshot sweep the app being captured), ids the snapshot of app ids a
\* sweep works on, port the port of the request's app, checks the calls of
\* check() the handler has started, req the request that started it, app
\* the row addApp returned for the server being processed, log the calls
\* the handler has made and the events it has broadcast for its servers, in
\* order.
Task(kind, pc, urls, i, port, checks) ==
    [kind |-> kind, pc |-> pc, urls |-> urls, i |-> i, port |-> port, checks |-> checks,
     ids |-> <<>>, req |-> NoRequest, app |-> NoRow, log |-> <<>>]

\* The call or broadcast `call` made for server i of a scan.
Step(call, i) == <<call, i>>

Put(b, t) == b (+) SetToBag({t})
Take(b, t) == b (-) SetToBag({t})
Running == BagToSet(tasks)

NoProbe ==
    [url |-> BadUrl, targetHost |-> NULL, isDocker |-> FALSE, outcome |-> Failure("", FALSE, 0, 0),
            call |-> checkStart(BadUrl, NULL, FALSE)]

\* No call of checkAll under study.
NoBatch == [urls |-> <<>>, targetHost |-> NULL, calls |-> <<>>, order |-> <<>>,
            results |-> <<>>, pc |-> "idle"]

\* No call of scan or quickScan under study.
NoScan == [pc |-> "idle"]
\* The PortScanner before its first call.
NoCall == [servers |-> <<>>, calls |-> 0]

\* No call of identifyApp under study.
NoIdent == [pc |-> "idle"]

\* The observers that may connect, and io with none of them connected:
\* connected holds the sockets of io, inbox what each observer has received.
Observers == {"dashboard 1", "dashboard 2"}
NoHub == [connected |-> {}, inbox |-> [o \in Observers |-> <<>>]]

\* initialize() has started the startup scan, which waits for quickScan().
StartupScan == Task("startup", "probe", <<>>, 0, NoPort, <<>>)

Init ==
    /\ db = EmptyDb
    /\ clock = 1
    /\ targetHost = NULL
    /\ tasks = SetToBag({StartupScan})
    /\ ops = MaxOps
    /\ emitted = <<>>
    /\ answer = NoAnswer
    /\ probe = NoProbe
    /\ batch = NoBatch
    /\ scan = NoScan
    /\ ident = NoIdent
    /\ hub = NoHub

\* CURRENT_TIMESTAMP moves on by a second.
Tick ==
    /\ clock < 1 + MaxClock
    /\ clock' = clock + 1
    /\ emitted' = <<>>
    /\ answer' = NoAnswer
    /\ UNCHANGED <<db, targetHost, tasks, ops, studies>>

(***************************************************************************)
(* Scans: POST /api/scan/quick ("quick"), POST /api/scan/full ("full") and *)
(* the startup scan of initialize() ("startup").                           *)
(***************************************************************************)
\* The database object of database/db.js has no updateMetadata: calling it
\* raises a TypeError.
updateMetadataThrows == TRUE

\* The calls the loop of a scan makes for server i between the return of
\* identifyApp and the await of check, had it started the check first.
stepsToCheck_checkFirst(i) == <<Step("check", i), Step("identifyApp", i), Step("addApp", i)>>

\* The calls the loop of a scan makes for server i between the return of
\* identifyApp and the await of check.
stepsToCheck(i) == <<Step("identifyApp", i), Step("addApp", i), Step("check", i)>>

\* The call and the broadcast the loop makes for server i after the return
\* of check; the startup scan broadcasts nothing, nor does a loop that
\* was left by an exception.
stepsToEvent(i, broadcasts) ==
    <<Step("recordScan", i)>> \o (IF broadcasts THEN <<Step("app_discovered", i)>> ELSE <<>>)

\* The request arrives: broadcast scan_start, await the port probe.
StartScan(kind) ==
    /\ ops > 0
    /\ ops' = ops - 1
    /\ \E req \in Requests :
         tasks' = Put(tasks, [Task(kind, "probe", <<>>, 0, NoPort, <<>>) EXCEPT !.req = req])
    /\ emitted' = <<Plain("scan_start")>>
    /\ answer' = NoAnswer
    /\ UNCHANGED <<db, clock, targetHost, studies>>

\* The probe returns its list; the loop awaits the page content and the
\* identification of the first server, or ends at once on an empty list.
ProbeDone(t) ==
    /\ t.pc = "probe"
    /\ \E found \in Discovered(t.kind) :
         /\ tasks' = IF found = <<>> THEN Take(tasks, t)
                     ELSE Put(Take(tasks, t),
                              [t EXCEPT !.pc = "identify", !.urls = found, !.i = 1])
         /\ emitted' = IF found = <<>> /\ t.kind # "startup"
                       THEN <<Plain("scan_complete")>>
                       ELSE <<>>
         /\ answer' = IF found = <<>> /\ t.kind # "startup" THEN 200 ELSE NoAnswer
    /\ UNCHANGED <<db, clock, targetHost, ops, studies>>

\* ContentFailed in a handler whose catch broadcasts nothing.
ContentFailed_silent(t) ==
    /\ t.pc = "identify"
    /\ tasks' = Take(tasks, t)
    /\ emitted' = <<>>
    /\ answer' = IF t.kind = "startup" THEN NoAnswer ELSE 500
    /\ UNCHANGED <<db, clock, targetHost, ops, studies>>

\* getPageContent rejects, the page.close() of its finally block having
\* failed: the handler ends in its catch, which for a scan request
\* broadcasts scan_error.
ContentFailed(t) ==
    /\ t.pc = "identify"
    /\ tasks' = Take(tasks, t)
    /\ emitted' = IF t.kind \in {"quick", "full"} THEN <<Plain("scan_error")>> ELSE <<>>
    /\ answer' = IF t.kind = "startup" THEN NoAnswer ELSE 500
    /\ UNCHANGED <<db, clock, targetHost, ops, studies>>

\* identifyApp returns: addApp, then await healthChecker.check(server.url).
Identified(t) ==
    /\ t.kind \in {"quick", "full", "startup"}
    /\ t.pc = "identify"
    /\ \E identification \in Identifications :
         LET url == t.urls[t.i] IN
         /\ db' = addApp(db, url, url.port, identification.name,
                         identification.category, clock)
         /\ tasks' = Put(Take(tasks, t),
                [t EXCEPT !.pc = "check",
                          !.checks = <<checkStart(url, targetHost, isDocker)>>,
                          !.app = addAppReturn(db, url, url.port, identification.name,
                                               identification.category, clock),
                          !.log = @ \o stepsToCheck(t.i)])
    /\ emitted' = <<>>
    /\ answer' = NoAnswer
    /\ UNCHANGED <<clock, targetHost, ops, studies>>

\* scanEvents that announces only the servers addApp created a row for.
scanEvents_newOnly(t, thrown, last) ==
    IF t.kind = "startup" THEN <<>>
    ELSE IF thrown THEN <<Plain("scan_error")>>
    ELSE (IF t.app.last_checked_at = NoTime
          THEN <<AppEvent("app_discovered", t.app)>> ELSE <<>>)
         \o (IF last
             THEN <<Event("scan_complete", BadUrl, 0, Len(t.urls), 0, TRUE)>>
             ELSE <<>>)

\* The events scan t broadcasts once the check of its server has returned:
\* scan_error from the catch when updateMetadata has thrown, else
\* app_discovered and, after the last server, scan_complete with
\* found: discovered.length.  The startup scan broadcasts nothing.
scanEvents(t, thrown, last) ==
    IF t.kind = "startup" THEN <<>>
    ELSE IF thrown THEN <<Plain("scan_error")>>
    ELSE <<AppEvent("app_discovered", t.app)>>
         \o (IF last
             THEN <<Event("scan_complete", BadUrl, 0, Len(t.urls), 0, TRUE)>>
             ELSE <<>>)

\* check returns: recordScan, (full scan) updateMetadata when the result
\* carries metaData, getResponseTargetHost, broadcast app_discovered with the
\* row addApp returned, then the next server or the end of the scan.  The
\* TypeError of updateMetadata ends the scan in its catch.
CheckedWith(t, o) ==
    /\ t.kind \in {"quick", "full", "startup"}
    /\ t.pc = "check"
    /\ LET health == checkEnd(t.checks[1], o)
           thrown == t.kind = "full" /\ health.metaData /\ updateMetadataThrows
           broadcasts == t.kind # "startup" /\ ~thrown
           last == t.i = Len(t.urls)
       IN
       /\ db' = recordScan(db, t.urls[t.i], health.status, health.responseTime, clock)
       /\ targetHost' = IF broadcasts THEN getResponseTargetHost(targetHost, t.req)
                        ELSE targetHost
       /\ tasks' = IF thrown \/ last THEN Take(tasks, t)
                   ELSE Put(Take(tasks, t),
                            [t EXCEPT !.pc = "identify", !.i = t.i + 1, !.checks = <<>>,
                                      !.app = NoRow,
                                      !.log = @ \o stepsToEvent(t.i, broadcasts)])
       /\ emitted' = scanEvents(t, thrown, last)
       /\ answer' = IF t.kind = "startup" THEN NoAnswer
                    ELSE IF thrown THEN 500
                    ELSE IF last THEN 200
                    ELSE NoAnswer
    /\ UNCHANGED <<clock, ops, studies>>

Checked(t) == \E o \in Outcomes : CheckedWith(t, o)

(***************************************************************************)
(* Health sweeps: POST /api/health-check ("health") and the setInterval    *)
(* callback of initialize() ("periodic").                                  *)
(***************************************************************************)
\* getAllApps, then checkAll starts one check per app and awaits them all.
StartSweep(kind) ==
    /\ ops > 0
    /\ ops' = ops - 1
    /\ \E s \in getAllApps(db) :
         tasks' = Put(tasks, [Task(kind, "checking", <<>>, 0, NoPort,
                    [i \in DOMAIN s |-> checkStart(db.apps[s[i]].url, targetHost, isDocker)])
                              EXCEPT !.ids = s])
    /\ emitted' = IF kind = "health" THEN <<Plain("health_check_start")>> ELSE <<>>
    /\ answer' = NoAnswer
    /\ UNCHANGED <<db, clock, targetHost, studies>>

\* The loop over the results of a sweep, from result i on: recordScan each;
\* POST /api/health-check calls updateMetadata for an online result with
\* metaData, whose TypeError ends the loop in the catch of the handler.
RECURSIVE recordResults(_, _, _, _, _)
recordResults(d, results, i, kind, now) ==
    IF i > Len(results) THEN d
    ELSE LET r == results[i]
             d1 == recordScan(d, r.url, r.status, r.responseTime, now)
         IN  IF kind = "health" /\ r.metaData /\ r.status = "online" /\ updateMetadataThrows
             THEN d1
             ELSE recordResults(d1, results, i + 1, kind, now)

\* { type: 'health_update', ...result }
HealthUpdate(r) ==
    [Event("health_update", r.url, 0, 0, 0, r.status = "online") EXCEPT !.status = r.status]

\* sweepEvents that counts as offline only the results with status offline.
RECURSIVE sweepEvents_offlineOnly(_, _, _, _)
sweepEvents_offlineOnly(results, i, online, offline) ==
    IF i > Len(results)
    THEN <<Event("health_check_complete", BadUrl, 0, online, offline, TRUE)>>
    ELSE LET r == results[i]
         IN  IF r.metaData /\ r.status = "online" /\ updateMetadataThrows
             THEN <<>>
             ELSE <<HealthUpdate(r)>>
                  \o sweepEvents_offlineOnly(results, i + 1,
                         IF r.status = "online" THEN online + 1 ELSE online,
                         IF r.status = "offline" THEN offline + 1 ELSE offline)

\* The events of the loop of POST /api/health-check from result i on, online
\* and offline being its counters so far: per result `if (result.status ===
\* 'online') online++; else offline++;` and a health_update, then
\* health_check_complete {online, offline}; nothing after the TypeError.
RECURSIVE sweepEvents(_, _, _, _)
sweepEvents(results, i, online, offline) ==
    IF i > Len(results)
    THEN <<Event("health_check_complete", BadUrl, 0, online, offline, TRUE)>>
    ELSE LET r == results[i]
         IN  IF r.metaData /\ r.status = "online" /\ updateMetadataThrows
             THEN <<>>
             ELSE <<HealthUpdate(r)>>
                  \o sweepEvents(results, i + 1,
                         IF r.status = "online" THEN online + 1 ELSE online,
                         IF r.status = "online" THEN offline ELSE offline + 1)

\* Whether the loop of POST /api/health-check is left by the TypeError.
sweepThrows(results) ==
    \E i \in DOMAIN results :
        results[i].metaData /\ results[i].status = "online" /\ updateMetadataThrows

\* Promise.all resolves once every check has returned, each with an outcome
\* of its own; the results are then recorded in input order.  A result is
\* read by nothing before that, so the checks return within this step.
SweepDoneWith(t, os) ==
    /\ t.pc = "checking"
    /\ LET results == [i \in DOMAIN t.checks |-> checkEnd(t.checks[i], os[i])]
       IN  /\ db' = recordResults(db, results, 1, t.kind, clock)
           /\ emitted' = IF t.kind = "health" THEN sweepEvents(results, 1, 0, 0)
                         ELSE <<Event("periodic_health_check", BadUrl, 0, Len(results), 0, TRUE)>>
           /\ answer' = IF t.kind # "health" THEN NoAnswer
                        ELSE IF sweepThrows(results) THEN 500
                        ELSE 200
    /\ tasks' = Take(tasks, t)
    /\ UNCHANGED <<clock, targetHost, ops, studies>>

SweepDone(t) == \E os \in [DOMAIN t.checks -> Outcomes] : SweepDoneWith(t, os)

(***************************************************************************)
(* POST /api/apps, POST /api/ai/identify/:id, DELETE /api/apps/:id         *)
(***************************************************************************)
\* POST /api/apps with a url: addApp, then await healthChecker.check(url).
StartAdd ==
    /\ ops > 0
    /\ ops' = ops - 1
    /\ \E url \in Urls, body \in Bodies :
         LET port == URL_port(url)
             cat == IF Truthy(body.category) THEN body.category ELSE "Unknown"
         IN
         /\ db' = addApp(db, url, port, body.name, cat, clock)
         /\ \E req \in Requests :
              tasks' = Put(tasks, [Task("add", "check", <<url>>, 1, port,
                                        <<checkStart(url, targetHost, isDocker)>>)
                                   EXCEPT !.req = req,
                                          !.app = addAppReturn(db, url, port, body.name,
                                                               cat, clock)])
    /\ emitted' = <<>>
    /\ answer' = NoAnswer
    /\ UNCHANGED <<clock, targetHost, studies>>

\* check returns: recordScan, getResponseTargetHost, broadcast app_added
\* with the row addApp returned, respond.
AddCheckedWith(t, o) ==
    /\ t.kind = "add"
    /\ t.pc = "check"
    /\ LET health == checkEnd(t.checks[1], o) IN
       db' = recordScan(db, t.urls[1], health.status, health.responseTime, clock)
    /\ targetHost' = getResponseTargetHost(targetHost, t.req)
    /\ tasks' = Take(tasks, t)
    /\ emitted' = <<AppEvent("app_added", t.app)>>
    /\ answer' = 200
    /\ UNCHANGED <<clock, ops, studies>>

AddChecked(t) == \E o \in Outcomes : AddCheckedWith(t, o)

\* POST /api/ai/identify/:id for an id getApp finds: await the page content
\* and the identification.
StartIdentify ==
    /\ ops > 0
    /\ ops' = ops - 1
    /\ \E id \in AppIds(db), req \in Requests :
         tasks' = Put(tasks, [Task("identify", "identify", <<db.apps[id].url>>, id,
                                   db.apps[id].port, <<>>) EXCEPT !.req = req])
    /\ emitted' = <<>>
    /\ answer' = NoAnswer
    /\ UNCHANGED <<db, clock, targetHost, studies>>

\* identifyApp returns: addApp with the url and port read at the start, then
\* getApp(req.params.id), getResponseTargetHost and broadcast app_updated;
\* reading the url of the undefined getApp returns for a removed id raises a
\* TypeError instead.
IdentifyDone(t) ==
    /\ t.kind = "identify"
    /\ t.pc = "identify"
    /\ \E identification \in Identifications :
         db' = addApp(db, t.urls[1], t.port, identification.name,
                     identification.category, clock)
    /\ targetHost' = getResponseTargetHost(targetHost, t.req)
    /\ tasks' = Take(tasks, t)
    /\ emitted' = IF HasApp(db', t.i)
                  THEN <<AppEvent("app_updated", db'.apps[t.i])>>
                  ELSE <<>>
    /\ answer' = IF HasApp(db', t.i) THEN 200 ELSE 500
    /\ UNCHANGED <<clock, ops, studies>>

\* The text of a :id parameter, as the sequence of its characters.
Digits == {"0", "1", "2", "3", "4", "5", "6", "7", "8", "9"}
DigitOf(c) ==
    CASE c = "0" -> 0 [] c = "1" -> 1 [] c = "2" -> 2 [] c = "3" -> 3 [] c = "4" -> 4
      [] c = "5" -> 5 [] c = "6" -> 6 [] c = "7" -> 7 [] c = "8" -> 8 [] c = "9" -> 9

\* The number the longest prefix of digits of chars stands for, acc being
\* the value of the digits read so far and seen whether there was one.
RECURSIVE leadingDigits(_, _, _)
leadingDigits(chars, acc, seen) ==
    IF chars # <<>> /\ Head(chars) \in Digits
    THEN leadingDigits(Tail(chars), 10 * acc + DigitOf(Head(chars)), TRUE)
    ELSE [nan |-> ~seen, value |-> acc]

RECURSIVE trimStart(_)
trimStart(chars) ==
    IF chars # <<>> /\ Head(chars) = " " THEN trimStart(Tail(chars)) ELSE chars

\* parseInt that reads the whole text as one decimal integer or fails.
parseInt_strict(chars) ==
    IF chars # <<>> /\ \A k \in DOMAIN chars : chars[k] \in Digits
    THEN leadingDigits(chars, 0, FALSE)
    ELSE [nan |-> TRUE, value |-> 0]

\* parseInt(text, 10): leading white space and a sign are skipped, then the
\* digits up to the first other character are read; NaN (nan) when there is
\* no digit there.
parseInt(chars) ==
    LET text == trimStart(chars)
        signed == text # <<>> /\ Head(text) \in {"-", "+"}
        read == leadingDigits(IF signed THEN Tail(text) ELSE text, 0, FALSE)
    IN  [nan |-> read.nan,
         value |-> IF signed /\ Head(text) = "-" THEN 0 - read.value ELSE read.value]

\* The :id parameters DELETE /api/apps/:id is run against.
IdParams ==
    { <<"1">>, <<"2">>, <<"a", "b", "c">>, <<"1", "a", "b", "c">>, <<"2", ".", "5">>,
      <<" ", "1">>, <<"-">> }

\* A request is answered with a status code before anything else is done.
Refuse(code) ==
    /\ ops > 0
    /\ ops' = ops - 1
    /\ emitted' = <<>>
    /\ answer' = code
    /\ UNCHANGED <<db, clock, targetHost, tasks, studies>>

\* POST /api/apps with a body that has no url, or an empty one.
AddWithoutUrl == Refuse(400)

\* DELETE /api/apps/:id once parseInt has read the integer id.
DeleteApp(id) ==
    /\ ops > 0
    /\ ops' = ops - 1
    /\ db' = removeApp(db, id)
    /\ emitted' = <<>>
    /\ answer' = 200
    /\ UNCHANGED <<clock, targetHost, tasks, studies>>

\* DELETE /api/apps/:id
DeleteRequest(param) ==
    \/ /\ parseInt(param).nan
       /\ Refuse(400)
    \/ /\ ~parseInt(param).nan
       /\ DeleteApp(parseInt(param).value)

Next ==
    \/ Tick
    \/ \E kind \in {"quick", "full"} : StartScan(kind)
    \/ \E t \in Running : ProbeDone(t)
    \/ \E t \in Running : ContentFailed(t)
    \/ \E t \in Running : Identified(t)
    \/ \E t \in Running : Checked(t)
    \/ \E kind \in {"health", "periodic"} : StartSweep(kind)
    \/ \E t \in Running : SweepDone(t)
    \/ AddWithoutUrl
    \/ StartAdd
    \/ \E t \in Running : AddChecked(t)
    \/ StartIdentify
    \/ \E t \in Running : IdentifyDone(t)
    \/ \E param \in IdParams : DeleteRequest(param)

Spec == Init /\ [][Next]_vars

(***************************************************************************)
(* The scan requests on their own, in a server whose startup scan has      *)
(* ended without a discovery, every await of a handler returning in the    *)
(* end.                                                                    *)
(***************************************************************************)
LiveInit ==
    /\ db = EmptyDb
    /\ clock = 1
    /\ targetHost = NULL
    /\ tasks = EmptyBag
    /\ ops = MaxOps
    /\ emitted = <<>>
    /\ answer = NoAnswer
    /\ probe = NoProbe
    /\ batch = NoBatch
    /\ scan = NoScan
    /\ ident = NoIdent
    /\ hub = NoHub

\* The await of handler t ends.
Resume(t) == ProbeDone(t) \/ ContentFailed(t) \/ Identified(t) \/ Checked(t)

LiveNext ==
    \/ Tick
    \/ \E kind \in {"quick", "full"} : StartScan(kind)
    \/ \E t \in Running : ProbeDone(t)
    \/ \E t \in Running : ContentFailed(t)
    \/ \E t \in Running : Identified(t)
    \/ \E t \in Running : Checked(t)

LiveSpec == LiveInit /\ [][LiveNext]_vars /\ WF_vars(\E t \in Running : Resume(t))

(***************************************************************************)
(* Removal and registration of Apps while the startup scan and health      *)
(* sweeps are in flight; the clock stands still.                           *)
(***************************************************************************)
MaxChurn == 2

ChurnInit ==
    /\ db = EmptyDb
    /\ clock = 1
    /\ targetHost = NULL
    /\ tasks = SetToBag({StartupScan})
    /\ ops = MaxChurn
    /\ emitted = <<>>
    /\ answer = NoAnswer
    /\ probe = NoProbe
    /\ batch = NoBatch
    /\ scan = NoScan
    /\ ident = NoIdent
    /\ hub = NoHub

ChurnNext ==
    \/ \E t \in Running : ProbeDone(t)
    \/ \E t \in Running : Identified(t)
    \/ \E t \in Running : Checked(t)
    \/ StartSweep("periodic")
    \/ \E t \in Running : SweepDone(t)
    \/ StartAdd
    \/ \E t \in Running : AddChecked(t)
    \/ \E param \in IdParams : DeleteRequest(param)

ChurnSpec == ChurnInit /\ [][ChurnNext]_vars

(***************************************************************************)
(* HealthChecker.check as a function of its inputs: one call, started      *)
(* under every configuration and ended by every outcome of axios.get.      *)
(***************************************************************************)
Https(host, port) == [scheme |-> "https", host |-> host, port |-> port]

ProbeUrls ==
    { Http("localhost", 3000), Http("localhost", 8080), Http("127.0.0.1", 5432),
      Http("example.test", 80), Http("localhost", NoPort), Https("localhost", 443),
      Https("192.168.1.50", 8888), Http("example.test", 21), BadUrl }

ProbeTargetHosts == {NULL, "localhost", "127.0.0.1", LanHost}

ErrorCodes ==
    {"ECONNREFUSED", "ETIMEDOUT", "ECONNABORTED", "ECONNRESET", "EPROTO",
     "ERR_FR_TOO_MANY_REDIRECTS", ""}

\* Every status code a response can carry; every rejection.
AllOutcomes ==
    { Response(code, html, 120) : code \in 100..599, html \in BOOLEAN }
    \cup { Failure(e, FALSE, 0, 120) : e \in ErrorCodes }
    \cup { Failure(e, TRUE, 500, 120) : e \in ErrorCodes }

ProbeInit ==
    /\ db = EmptyDb
    /\ clock = 1
    /\ targetHost = NULL
    /\ tasks = EmptyBag
    /\ ops = 0
    /\ emitted = <<>>
    /\ answer = NoAnswer
    /\ batch = NoBatch
    /\ scan = NoScan
    /\ ident = NoIdent
    /\ hub = NoHub
    /\ \E u \in ProbeUrls, th \in ProbeTargetHosts, dk \in BOOLEAN, o \in AllOutcomes :
         probe = [url |-> u, targetHost |-> th, isDocker |-> dk, outcome |-> o,
                  call |-> checkStart(u, th, dk)]

\* axios.get ends with the outcome: check runs to its return.
ProbeReturn ==
    /\ probe.call.status = "pending"
    /\ probe' = [probe EXCEPT !.call = checkEnd(@, probe.outcome)]
    /\ UNCHANGED <<db, clock, targetHost, tasks, ops, emitted, answer, batch, scan, ident, hub>>

ProbeSpec == ProbeInit /\ [][ProbeReturn]_vars

(***************************************************************************)
(* HealthChecker.checkAll: one call over a list of apps, its checks         *)
(* returning in any order.                                                 *)
(***************************************************************************)
MaxBatch == 3

BatchUrls == {U3000, U8080, Http("localhost", 5000)}

\* The url lists of the rows getAllApps can return: url is UNIQUE.
BatchInputs ==
    { urls \in UNION { [1..n -> BatchUrls] : n \in 0..MaxBatch } :
        \A i, j \in DOMAIN urls : i # j => urls[i] # urls[j] }

\* checkBatch with the results in the order in which the checks returned.
checkBatch_asReturned(calls, order) == [k \in DOMAIN order |-> calls[order[k]]]

\* checkBatch: the value of Promise.all(urls.map(url => this.check(url))),
\* calls being the checks in the order of urls and order the order in which
\* they returned.
checkBatch(calls, order) == [k \in DOMAIN calls |-> calls[k]]

\* checkAll(apps) maps the apps to their urls and starts a check of each.
BatchInit ==
    /\ db = EmptyDb
    /\ clock = 1
    /\ targetHost = NULL
    /\ tasks = EmptyBag
    /\ ops = 0
    /\ emitted = <<>>
    /\ answer = NoAnswer
    /\ probe = NoProbe
    /\ scan = NoScan
    /\ ident = NoIdent
    /\ hub = NoHub
    /\ \E urls \in BatchInputs, th \in {NULL, LanHost} :
         batch = [urls |-> urls, targetHost |-> th,
                  calls |-> [i \in DOMAIN urls |-> checkStart(urls[i], th, isDocker)],
                  order |-> <<>>, results |-> <<>>, pc |-> "checking"]

\* The check of urls[i] returns.
CheckReturns(i) ==
    /\ batch.pc = "checking"
    /\ batch.calls[i].status = "pending"
    /\ \E o \in Outcomes :
         batch' = [batch EXCEPT !.calls[i] = checkEnd(@, o), !.order = Append(@, i)]
    /\ UNCHANGED <<db, clock, targetHost, tasks, ops, emitted, answer, probe, scan, ident, hub>>

\* Every check has returned: Promise.all resolves and checkAll returns.
BatchResolves ==
    /\ batch.pc = "checking"
    /\ \A i \in DOMAIN batch.calls : batch.calls[i].status # "pending"
    /\ batch' = [batch EXCEPT !.results = checkBatch(batch.calls, batch.order),
                              !.pc = "resolved"]
    /\ UNCHANGED <<db, clock, targetHost, tasks, ops, emitted, answer, probe, scan, ident, hub>>

BatchNext ==
    \/ \E i \in DOMAIN batch.calls : CheckReturns(i)
    \/ BatchResolves

BatchSpec == BatchInit /\ [][BatchNext]_vars

(***************************************************************************)
(* PortScanner (agents/portScanner.js): one call of scan() or quickScan()  *)
(* against a host whose ports behave as env says.                          *)
(***************************************************************************)
\* config.portRange and config.scanning.concurrency of the model, and the
\* head of the commonPorts list of quickScan.
portStart == 3000
portEnd == 3002
concurrency == 2
commonPorts == <<80, 443, 8080>>
\* The calls of scan() and quickScan() made in one behaviour.
MaxScans == 2

\* What an axios.get of checkHttpServer can end with: a rejection, or a
\* response with a status code whose data is an HTML string with a title
\* ("html"), a string without one ("text") or, for a JSON body, the object
\* axios parsed it to ("object").
NoReply == [responds |-> FALSE, statusCode |-> 0, data |-> "text"]
Reply(code, data) == [responds |-> TRUE, statusCode |-> code, data |-> data]
Replies == {NoReply, Reply(200, "html"), Reply(404, "text"), Reply(200, "object")}

\* How a port behaves: the outcome of the TCP connect of checkPort and the
\* replies to the GETs on either protocol.  A port that refuses connections
\* answers no GET; one whose connect timed out may still answer a later GET.
Behaviour(tcp, http, https) == [tcp |-> tcp, http |-> http, https |-> https]
Behaviours ==
    { Behaviour("closed", NoReply, NoReply), Behaviour("timeout", NoReply, NoReply),
      Behaviour("timeout", Reply(200, "html"), NoReply) }
    \cup { Behaviour("open", h, hs) : h \in Replies, hs \in Replies \ {Reply(404, "text")} }

Range(seq) == {seq[k] : k \in DOMAIN seq}
RECURSIVE Flatten(_)
Flatten(seqs) == IF seqs = <<>> THEN <<>> ELSE Head(seqs) \o Flatten(Tail(seqs))

\* scan(): allPorts split into slices of `concurrency` ports.
allPorts == [k \in 1..(portEnd - portStart + 1) |-> portStart + k - 1]
Batches(ports, size) ==
    [b \in 1..((Len(ports) + size - 1) \div size) |->
        SubSeq(ports, (b - 1) * size + 1, Min(b * size, Len(ports)))]

\* PortScanner.extractTitle(response.data): html.match raises a TypeError
\* when data is no string.
extractTitleThrows(data) == data = "object"
extractTitle(data) == IF data = "html" THEN "Page Title" ELSE NULL

\* The DiscoveredServer checkHttpServer returns.
DiscoveredServer(port, protocol, reply) ==
    [port |-> port, protocol |-> protocol,
     url |-> [scheme |-> protocol, host |-> "127.0.0.1", port |-> port],
     status |-> "online", statusCode |-> reply.statusCode,
     title |-> extractTitle(reply.data)]

\* scanBatch with every port of the batch passed on to checkHttpServer.
openPorts_all(ports, status) == ports

\* scanBatch: results.filter(r => r.status === 'open'), in batch order.
openPorts(ports, status) ==
    LET IsOpen(q) == status[q] = "open" IN SelectSeq(ports, IsOpen)

\* The call once the connects of batch b are to start: all at once; an empty
\* list of batches ends the scan.  connects counts the connection attempts
\* made to each port.
startBatch(sc, b) ==
    IF b > Len(sc.batches)
    THEN [sc EXCEPT !.b = b, !.pc = "done"]
    ELSE [sc EXCEPT !.b = b, !.pc = "connect", !.pending = Range(sc.batches[b]),
                    !.open = <<>>, !.j = 0,
                    !.connects = [q \in DOMAIN @ |->
                                    IF q \in Range(sc.batches[b]) THEN @[q] + 1 ELSE @[q]]]

\* The call once port j of the open ports of the batch is to be checked on
\* HTTP; past the last one the next batch starts.  gets counts the GETs sent
\* to each port on either protocol.
startHttp(sc, j) ==
    IF j > Len(sc.open) THEN startBatch(sc, sc.b + 1)
    ELSE [sc EXCEPT !.pc = "http", !.j = j, !.protocol = "http",
                    !.gets[sc.open[j]].http = @ + 1]

\* The target ports of a call, in batches.
batchesOf(mode) == IF mode = "full" THEN Batches(allPorts, concurrency) ELSE <<commonPorts>>
Envs(mode) == [Range(Flatten(batchesOf(mode))) -> Behaviours]
\* The hosts a later call is run against: the first target port behaves in
\* one way, the others in another.
LaterBehaviours ==
    { Behaviour("closed", NoReply, NoReply), Behaviour("open", Reply(200, "html"), NoReply),
      Behaviour("open", NoReply, Reply(200, "html")),
      Behaviour("open", Reply(200, "object"), NoReply) }
LaterEnvs(mode) ==
    LET ports == Flatten(batchesOf(mode))
    IN  { [q \in Range(ports) |-> IF q = ports[1] THEN b1 ELSE b2] :
            b1 \in LaterBehaviours, b2 \in LaterBehaviours }

\* A call that goes on with the servers the call before it found.
startCall_keep(prev, mode, env) ==
    LET ports == Range(Flatten(batchesOf(mode)))
    IN  startBatch([mode |-> mode, env |-> env, batches |-> batchesOf(mode),
                    b |-> 0, pc |-> "start", pending |-> {},
                    status |-> [q \in ports |-> "pending"],
                    open |-> <<>>, j |-> 0, protocol |-> "http",
                    servers |-> prev.servers,
                    connects |-> [q \in ports |-> 0],
                    gets |-> [q \in ports |-> [http |-> 0, https |-> 0]],
                    calls |-> prev.calls + 1], 1)

\* scan() or quickScan() is called, prev being the call before it: its
\* ports, results and servers are locals of the call, which start empty.
startCall(prev, mode, env) ==
    LET ports == Range(Flatten(batchesOf(mode)))
    IN  startBatch([mode |-> mode, env |-> env, batches |-> batchesOf(mode),
                    b |-> 0, pc |-> "start", pending |-> {},
                    status |-> [q \in ports |-> "pending"],
                    open |-> <<>>, j |-> 0, protocol |-> "http",
                    servers |-> <<>>,
                    connects |-> [q \in ports |-> 0],
                    gets |-> [q \in ports |-> [http |-> 0, https |-> 0]],
                    calls |-> prev.calls + 1], 1)

ScanInit ==
    /\ db = EmptyDb
    /\ clock = 1
    /\ targetHost = NULL
    /\ tasks = EmptyBag
    /\ ops = 0
    /\ emitted = <<>>
    /\ answer = NoAnswer
    /\ probe = NoProbe
    /\ batch = NoBatch
    /\ ident = NoIdent
    /\ hub = NoHub
    /\ \E mode \in {"quick", "full"} : \E env \in Envs(mode) :
         scan = startCall(NoCall, mode, env)

\* checkPort(q) resolves on the close of its socket; with the last one of the
\* batch Promise.all resolves and the open ports are checked one by one.
PortChecked(q) ==
    /\ scan.pc = "connect"
    /\ q \in scan.pending
    /\ LET sc == [scan EXCEPT !.pending = @ \ {q}, !.status[q] = scan.env[q].tcp]
       IN  scan' = IF sc.pending # {} THEN sc
                   ELSE startHttp([sc EXCEPT !.open = openPorts(sc.batches[sc.b], sc.status)], 1)
    /\ UNCHANGED <<db, clock, targetHost, tasks, ops, emitted, answer, probe, batch, ident, hub>>

\* The GET of checkHttpServer on the current protocol ends: a response whose
\* title can be extracted is returned as the DiscoveredServer of the port;
\* after a rejection, or the TypeError of extractTitle, the loop goes on to
\* https, and after https returns null.
HttpChecked ==
    /\ scan.pc = "http"
    /\ LET q == scan.open[scan.j]
           reply == IF scan.protocol = "http" THEN scan.env[q].http ELSE scan.env[q].https
       IN  scan' =
             IF reply.responds /\ ~extractTitleThrows(reply.data)
             THEN startHttp([scan EXCEPT !.servers =
                                Append(@, DiscoveredServer(q, scan.protocol, reply))],
                            scan.j + 1)
             ELSE IF scan.protocol = "http"
             THEN [scan EXCEPT !.protocol = "https", !.gets[q].https = @ + 1]
             ELSE startHttp(scan, scan.j + 1)
    /\ UNCHANGED <<db, clock, targetHost, tasks, ops, emitted, answer, probe, batch, ident, hub>>

\* The call has returned; scan() or quickScan() is called again, on a host
\* whose ports may behave otherwise by now.
ScanAgain ==
    /\ scan.pc = "done"
    /\ scan.calls < MaxScans
    /\ \E mode \in {"quick", "full"} : \E env \in LaterEnvs(mode) :
         scan' = startCall(scan, mode, env)
    /\ UNCHANGED <<db, clock, targetHost, tasks, ops, emitted, answer, probe, batch, ident, hub>>

ScanNext ==
    \/ \E q \in scan.pending : PortChecked(q)
    \/ HttpChecked
    \/ ScanAgain

ScanSpec == ScanInit /\ [][ScanNext]_vars

(***************************************************************************)
(* Screenshot sweeps: POST /api/screenshots/update and its alias           *)
(* POST /api/screenshots/refresh, over a Store of three checked Apps.      *)
(***************************************************************************)
MaxSweeps == 2

\* What `await screenshotAgent.captureScreenshot(url, id)` can end with:
\* { success: true, buffer } ("captured"), { success: false, error } after an
\* error caught inside ("failed"), or the rejection of the page.close() of
\* its finally block, which replaces either return ("closeFailed").
Captures == {"captured", "failed", "closeFailed"}
Images == {1, 2}

\* An App as a scan leaves it: registered, then checked once at time t.
Seeded(d, url, status, t) ==
    recordScan(addApp(d, url, url.port, NULL, NULL, 1), url, status, 120, t)

SeededDbs ==
    { Seeded(Seeded(Seeded(EmptyDb, U3000, s1, 1), U8080, s2, t), Http("localhost", 5000), s3, t) :
        s1 \in {"online", "offline"}, s2 \in {"online", "offline"},
        s3 \in {"online", "offline"}, t \in {1, 2} }

ShotsTask(ids, i) ==
    [Task("shots", "capture", <<>>, i, NoPort, <<>>) EXCEPT !.ids = ids]

ShotInit ==
    /\ db \in SeededDbs
    /\ clock = 2
    /\ targetHost = NULL
    /\ tasks = EmptyBag
    /\ ops = MaxSweeps
    /\ emitted = <<>>
    /\ answer = NoAnswer
    /\ probe = NoProbe
    /\ batch = NoBatch
    /\ scan = NoScan
    /\ ident = NoIdent
    /\ hub = NoHub

\* The request arrives: broadcast screenshot_update_start, getOnlineApps,
\* await the capture of the first app; without online apps the sweep is
\* complete at once.
StartShots ==
    /\ ops > 0
    /\ ops' = ops - 1
    /\ \E s \in getOnlineApps(db) :
         /\ tasks' = IF s = <<>> THEN tasks ELSE Put(tasks, ShotsTask(s, 1))
         /\ emitted' = <<Plain("screenshot_update_start")>>
                       \o (IF s = <<>> THEN <<Plain("screenshot_update_complete")>> ELSE <<>>)
         /\ answer' = IF s = <<>> THEN 200 ELSE NoAnswer
    /\ UNCHANGED <<db, clock, targetHost, studies>>

\* captureScreenshot ends with c (image being the buffer of a capture):
\* updateScreenshot on success, broadcast screenshot_updated, then the next
\* app or screenshot_update_complete.  A rejection ends the handler in its
\* catch, which answers 500 and broadcasts nothing.
CapturedWith(t, c, image) ==
    /\ t.kind = "shots"
    /\ t.pc = "capture"
    /\ LET id == t.ids[t.i]
           last == t.i = Len(t.ids)
       IN
       /\ db' = IF c = "captured" THEN updateScreenshot(db, id, image) ELSE db
       /\ tasks' = IF c = "closeFailed" \/ last THEN Take(tasks, t)
                   ELSE Put(Take(tasks, t), [t EXCEPT !.i = t.i + 1])
       /\ emitted' =
            IF c = "closeFailed" THEN <<>>
            ELSE <<Event("screenshot_updated", BadUrl, id, 0, 0, c = "captured")>>
                 \o (IF last THEN <<Plain("screenshot_update_complete")>> ELSE <<>>)
       /\ answer' = IF c = "closeFailed" THEN 500 ELSE IF last THEN 200 ELSE NoAnswer
    /\ UNCHANGED <<clock, targetHost, ops, studies>>

Captured(t) == \E c \in Captures, image \in Images : CapturedWith(t, c, image)

ShotNext ==
    \/ StartShots
    \/ \E t \in Running : Captured(t)

ShotSpec == ShotInit /\ [][ShotNext]_vars

(***************************************************************************)
(* AIAgent (agents/aiAgent.js): one call of identifyApp(url, title,        *)
(* content), whose result the caller passes to addApp.                     *)
(***************************************************************************)
\* The patterns of fallbackIdentify in declared order; pattern /:N/ is kept
\* as its port N.
patterns ==
   << [port |-> 3000, name |-> "React/Vue Dev Server", category |-> "Development"],
      [port |-> 3001, name |-> "Next.js Dev Server", category |-> "Development"],
      [port |-> 5000, name |-> "Flask/Python App", category |-> "Development"],
      [port |-> 5432, name |-> "PostgreSQL Admin", category |-> "Database"],
      [port |-> 5433, name |-> "PostgreSQL", category |-> "Database"],
      [port |-> 6379, name |-> "Redis", category |-> "Database"],
      [port |-> 8080, name |-> "Tomcat/Java App", category |-> "Development"],
      [port |-> 8000, name |-> "Python Server", category |-> "Development"],
      [port |-> 9200, name |-> "Elasticsearch", category |-> "Database"],
      [port |-> 9300, name |-> "Elasticsearch Cluster", category |-> "Database"],
      [port |-> 5601, name |-> "Kibana", category |-> "Monitoring"],
      [port |-> 4040, name |-> "Jenkins", category |-> "CI/CD"],
      [port |-> 9000, name |-> "SonarQube", category |-> "CI/CD"],
      [port |-> 9001, name |-> "Portainer", category |-> "Monitoring"],
      [port |-> 10000, name |-> "Webmin", category |-> "Monitoring"],
      [port |-> 15672, name |-> "RabbitMQ Management", category |-> "API"],
      [port |-> 15674, name |-> "RabbitMQ", category |-> "API"],
      [port |-> 8123, name |-> "Prometheus", category |-> "Monitoring"],
      [port |-> 9090, name |-> "Prometheus", category |-> "Monitoring"],
      [port |-> 3002, name |-> "Storybook", category |-> "Development"],
      [port |-> 4200, name |-> "Angular Dev Server", category |-> "Development"],
      [port |-> 8001, name |-> "API Server", category |-> "API"],
      [port |-> 8020, name |-> "Hadoop YARN", category |-> "Big Data"],
      [port |-> 50070, name |-> "Hadoop HDFS", category |-> "Big Data"],
      [port |-> 8081, name |-> "Service", category |-> "Development"],
      [port |-> 8888, name |-> "Jupyter", category |-> "Development"],
      [port |-> 8889, name |-> "Data Service", category |-> "API"],
      [port |-> 9009, name |-> "Angular", category |-> "Development"],
      [port |-> 9043, name |-> "WebSphere", category |-> "Development"],
      [port |-> 9443, name |-> "Admin Console", category |-> "Monitoring"],
      [port |-> 11434, name |-> "Ollama", category |-> "AI/ML"],
      [port |-> 11435, name |-> "Open WebUI", category |-> "AI/ML"] >>

\* Whether the decimal digits of n start with those of p.
RECURSIVE HasPrefix(_, _)
HasPrefix(n, p) == IF n = p THEN TRUE ELSE IF n < 10 THEN FALSE ELSE HasPrefix(n \div 10, p)

\* p.pattern.test(url) for a url without a path: the text of the url has
\* ":N" only where its port starts, so /:N/ matches when the digits of the
\* port start with N.
patternTest(rule, url) == url.port # NoPort /\ HasPrefix(url.port, rule.port)

\* title.substring(0, 50)
LongTitle == "A page title that is longer than fifty characters, by some"
substring50(title) ==
    IF title = LongTitle THEN "A page title that is longer than fifty characters," ELSE title

\* `App on port ${new URL(url).port}` / `Port ${port}`
PortText(port) == IF port = NoPort THEN "" ELSE ToString(port)

\* fallbackIdentify with the page title taking precedence over the patterns.
RECURSIVE fallbackIdentify_titleFirst(_, _, _)
fallbackIdentify_titleFirst(url, title, k) ==
    IF Truthy(title) THEN [name |-> substring50(title), category |-> "Other"]
    ELSE IF k > Len(patterns)
    THEN [name |-> "Port " \o PortText(URL_port(url)), category |-> "Unknown"]
    ELSE IF patternTest(patterns[k], url)
    THEN [name |-> patterns[k].name, category |-> patterns[k].category]
    ELSE fallbackIdentify_titleFirst(url, NULL, k + 1)

\* fallbackIdentify(url, title), its loop being at pattern k.
RECURSIVE fallbackIdentify(_, _, _)
fallbackIdentify(url, title, k) ==
    IF k > Len(patterns)
    THEN IF Truthy(title)
         THEN [name |-> substring50(title), category |-> "Other"]
         ELSE [name |-> "Port " \o PortText(URL_port(url)), category |-> "Unknown"]
    ELSE IF patternTest(patterns[k], url)
    THEN [name |-> patterns[k].name, category |-> patterns[k].category]
    ELSE fallbackIdentify(url, title, k + 1)

\* What the call of the collaborator ends with.  "unavailable": callOllama
\* caught an error or a timeout and returned null; "empty": no response
\* text; "garbage": a text that is no JSON and holds no {...}; "braces": a
\* text that is no JSON and whose {...} is none either; "null": the JSON text
\* null; "json": a JSON object; "embedded": a JSON object inside other text.
\* name and category are the fields of the object (NULL when missing).
OllamaReply(kind, name, category) == [kind |-> kind, name |-> name, category |-> category]
OllamaFailures ==
    { OllamaReply(kind, NULL, NULL) : kind \in {"unavailable", "empty", "garbage", "braces", "null"} }
OllamaReplies ==
    OllamaFailures
    \cup { OllamaReply("json", n, c) : n \in {NULL, "", "Grafana"}, c \in {NULL, "Monitoring"} }
    \cup { OllamaReply("embedded", "Grafana", NULL) }

\* identifyApp(url, title, content) once callOllama has returned reply.
identifyApp(url, title, reply) ==
    IF reply.kind \in {"json", "embedded"}
    THEN [name |-> IF Truthy(reply.name) THEN reply.name
                   ELSE "App on port " \o PortText(URL_port(url)),
          category |-> IF Truthy(reply.category) THEN reply.category ELSE "Other"]
    ELSE fallbackIdentify(url, title, 1)

IdentUrls ==
    { U3000, U8080, Http("127.0.0.1", 30001), Http("127.0.0.1", 80), Http("localhost", 4321),
      Https("127.0.0.1", 8443), Http("127.0.0.1", 9001), Http("localhost", 50070) }
Titles == {NULL, "", "My Dashboard", LongTitle}

\* A scan calls identifyApp(server.url, content.title, content) and awaits
\* the collaborator.
IdentInit ==
    /\ db = EmptyDb
    /\ clock = 1
    /\ targetHost = NULL
    /\ tasks = EmptyBag
    /\ ops = 0
    /\ emitted = <<>>
    /\ answer = NoAnswer
    /\ probe = NoProbe
    /\ batch = NoBatch
    /\ scan = NoScan
    /\ hub = NoHub
    /\ \E url \in IdentUrls, title \in Titles, reply \in OllamaReplies :
         ident = [pc |-> "calling", url |-> url, title |-> title, reply |-> reply,
                  result |-> [name |-> NULL, category |-> NULL]]

\* callOllama returns: identifyApp returns its result.
IdentReturns ==
    /\ ident.pc = "calling"
    /\ ident' = [ident EXCEPT !.pc = "returned",
                              !.result = identifyApp(ident.url, ident.title, ident.reply)]
    /\ UNCHANGED <<db, clock, targetHost, tasks, ops, emitted, answer, probe, batch, scan, hub>>

\* The scan passes the result to addApp(server.url, server.port, name,
\* category).
IdentStored ==
    /\ ident.pc = "returned"
    /\ db' = addApp(db, ident.url, ident.url.port, ident.result.name,
                    ident.result.category, clock)
    /\ ident' = [ident EXCEPT !.pc = "stored"]
    /\ UNCHANGED <<clock, targetHost, tasks, ops, emitted, answer, probe, batch, scan, hub>>

IdentNext == IdentReturns \/ IdentStored

IdentSpec == IdentInit /\ [][IdentNext]_vars

(***************************************************************************)
(* The Event Bus: io of server.js, the observers that connect to it and    *)
(* broadcast(data).                                                        *)
(***************************************************************************)
MaxEmits == 3

EventTypes == {"scan_start", "app_added"}

\* An emit that also queues the event for the observers that are away.
ioEmit_queued(h, e) ==
    [h EXCEPT !.inbox = [o \in Observers |-> Append(h.inbox[o], e)]]

\* io.emit('message', data): the event goes to every connected socket.
ioEmit(h, e) ==
    [h EXCEPT !.inbox = [o \in Observers |->
        IF o \in h.connected THEN Append(h.inbox[o], e) ELSE h.inbox[o]]]

HubInit ==
    /\ db = EmptyDb
    /\ clock = 1
    /\ targetHost = NULL
    /\ tasks = EmptyBag
    /\ ops = MaxEmits
    /\ emitted = <<>>
    /\ answer = NoAnswer
    /\ probe = NoProbe
    /\ batch = NoBatch
    /\ scan = NoScan
    /\ ident = NoIdent
    /\ hub = NoHub

\* io.on('connection'): an observer connects; the handler only logs.
Connect(o) ==
    /\ o \notin hub.connected
    /\ hub' = [hub EXCEPT !.connected = @ \cup {o}]
    /\ UNCHANGED <<db, clock, targetHost, tasks, ops, emitted, answer, probe, batch, scan, ident>>

\* socket.on('disconnect'): the observer is gone; the handler only logs.
Disconnect(o) ==
    /\ o \in hub.connected
    /\ hub' = [hub EXCEPT !.connected = @ \ {o}]
    /\ UNCHANGED <<db, clock, targetHost, tasks, ops, emitted, answer, probe, batch, scan, ident>>

\* broadcast(data)
Broadcast(e) ==
    /\ ops > 0
    /\ ops' = ops - 1
    /\ emitted' = <<e>>
    /\ hub' = ioEmit(hub, e)
    /\ UNCHANGED <<db, clock, targetHost, tasks, answer, probe, batch, scan, ident>>

HubNext ==
    \/ \E o \in Observers : Connect(o)
    \/ \E o \in Observers : Disconnect(o)
    \/ \E type \in EventTypes : Broadcast(Plain(type))

HubSpec == HubInit /\ [][HubNext]_vars

(***************************************************************************)
(* config.targetHost under the requests that read or write it, in a server *)
(* whose startup scan has registered and checked one App.                  *)
(***************************************************************************)
MaxHost == 2

\* The requests the GET handlers are run against: besides the two above, a
\* Host header that the pattern matches with a group above 255, a list of
\* forwarded hosts that starts with the LAN address, a forwarded name in
\* front of a LAN Host header, and a private address outside 192.168.
HostRequests ==
    Requests \cup
    { Request(<<>>, Dotted(<<192, 168, 999, 1>>, 3000)),
      Request(<<Dotted(<<192, 168, 1, 50>>, NoPort), Named("proxy.lan", NoPort)>>,
              Named("dashboard.example", 443)),
      Request(<<Named("dashboard.example", NoPort)>>, Dotted(<<192, 168, 1, 50>>, 3000)),
      Request(<<>>, Dotted(<<10, 0, 0, 7>>, 3000)) }

\* The targetHost of the body of POST /api/ui/config, NULL when it has none:
\* hosts that no request above names in a header.
ConfigBodies == {NULL, "", "localhost", "dashboard.lan", "192.168.1.77"}

HostInit ==
    /\ db = Seeded(EmptyDb, U3000, "online", 1)
    /\ clock = 1
    /\ targetHost \in ProbeTargetHosts
    /\ tasks = EmptyBag
    /\ ops = MaxHost
    /\ emitted = <<>>
    /\ answer = NoAnswer
    /\ probe = NoProbe
    /\ batch = NoBatch
    /\ scan = NoScan
    /\ ident = NoIdent
    /\ hub = NoHub

\* GET /api/apps: getAllApps, getStats, getResponseTargetHost, respond.
GetApps(req) ==
    /\ ops > 0
    /\ ops' = ops - 1
    /\ targetHost' = getResponseTargetHost(targetHost, req)
    /\ emitted' = <<>>
    /\ answer' = 200
    /\ UNCHANGED <<db, clock, tasks, studies>>

\* GET /api/apps/:id: 404 when getApp finds no row, else getScanHistory,
\* getResponseTargetHost, respond.
GetApp(id, req) ==
    /\ ops > 0
    /\ ops' = ops - 1
    /\ targetHost' = IF HasApp(db, id) THEN getResponseTargetHost(targetHost, req)
                     ELSE targetHost
    /\ emitted' = <<>>
    /\ answer' = IF HasApp(db, id) THEN 200 ELSE 404
    /\ UNCHANGED <<db, clock, tasks, studies>>

\* POST /api/ui/config: a non-empty string is stored as config.targetHost,
\* anything else is answered with 400.
PostUiConfig(host) ==
    /\ ops > 0
    /\ ops' = ops - 1
    /\ targetHost' = IF Truthy(host) THEN host ELSE targetHost
    /\ emitted' = <<>>
    /\ answer' = IF Truthy(host) THEN 200 ELSE 400
    /\ UNCHANGED <<db, clock, tasks, studies>>

HostNext ==
    \/ \E req \in HostRequests : GetApps(req)
    \/ \E id \in 1..2, req \in HostRequests : GetApp(id, req)
    \/ \E host \in ConfigBodies : PostUiConfig(host)
    \/ \E kind \in {"quick", "full"} : StartScan(kind)
    \/ \E t \in Running : ProbeDone(t)
    \/ \E t \in Running : ContentFailed(t)
    \/ \E t \in Running : Identified(t)
    \/ \E t \in Running : Checked(t)
    \/ StartAdd
    \/ \E t \in Running : AddChecked(t)
    \/ StartIdentify
    \/ \E t \in Running : IdentifyDone(t)

HostSpec == HostInit /\ [][HostNext]_vars

(***************************************************************************)
(* Properties                                                              *)
(***************************************************************************)
Row(id) == db.apps[id]
Rows(id) == HistoryOf(db, id)
Last(rows) == rows[Len(rows)]
Checkable == {"online", "offline"}
Surviving == AppIds(db) \cap AppIds(db')

\* C1: in every reachable state the Store holds at most one App per url.
OneAppPerUrl ==
    \A i, j \in AppIds(db) : Row(i).url = Row(j).url => i = j

\* POST /api/apps and the startup scan have both called addApp for one url and
\* both wait for their health check.
Witness_C1 ==
    \E t, u \in Running :
        /\ t.kind = "add" /\ t.pc = "check"
        /\ u.kind = "startup" /\ u.pc = "check"
        /\ u.urls[u.i] = t.urls[1]
        /\ HasUrl(db, t.urls[1])

\* C2: no step changes the populated name or the populated category of an
\* App, whatever name and category the addApp calls of the step carry.
NameCategoryKept ==
    [][\A id \in Surviving :
          /\ Truthy(Row(id).name) => db'.apps[id].name = Row(id).name
          /\ Truthy(Row(id).category) => db'.apps[id].category = Row(id).category]_vars

\* The startup scan has called addApp, with the name and category of its
\* identification, for a url registered by hand as "My App"/"Tools".
Witness_C2 ==
    \E t \in Running :
        /\ t.kind = "startup" /\ t.pc = "check"
        /\ HasUrl(db, t.urls[t.i])
        /\ getAppByUrl(db, t.urls[t.i]).name = "My App"
        /\ getAppByUrl(db, t.urls[t.i]).category = "Tools"

\* The steps that call addApp and nothing else on the Store.
AddAppStep ==
    \/ StartAdd
    \/ \E t \in Running : Identified(t) \/ IdentifyDone(t)

\* C3: a step that calls addApp leaves id, port, discoveredAt, status,
\* lastCheckedAt of every registered App and the scan history unchanged, and
\* no step at all changes the discoveredAt of an App.
AddAppFrame ==
    [][/\ AddAppStep =>
            /\ db'.history = db.history
            /\ \A id \in AppIds(db) :
                  /\ id \in AppIds(db')
                  /\ db'.apps[id].id = Row(id).id
                  /\ db'.apps[id].url = Row(id).url
                  /\ db'.apps[id].port = Row(id).port
                  /\ db'.apps[id].discovered_at = Row(id).discovered_at
                  /\ db'.apps[id].status = Row(id).status
                  /\ db'.apps[id].last_checked_at = Row(id).last_checked_at
       /\ \A id \in Surviving : db'.apps[id].discovered_at = Row(id).discovered_at]_vars

\* POST /api/apps has called addApp, a second after its discovery, for a url
\* that a scan registered and that has been health-checked.
Witness_C3 ==
    \E t \in Running :
        /\ t.kind = "add" /\ t.pc = "check"
        /\ HasUrl(db, t.urls[1])
        /\ LET app == getAppByUrl(db, t.urls[1])
           IN  /\ app.name = "Grafana"
               /\ app.status \in Checkable
               /\ app.discovered_at < clock
               /\ Rows(app.id) # <<>>

\* Every App with a history has the status and the time of its most recently
\* recorded entry.
StatusMatchesHistory ==
    \A id \in AppIds(db) :
        Rows(id) # <<>> =>
            /\ Row(id).status = Last(Rows(id)).status
            /\ Row(id).last_checked_at = Last(Rows(id)).checked_at

\* The step in which a handler records the result of its check of a
\* registered url adds one entry with the status and response time of the
\* result and sets the status of the App to it.
RecordScanUnit ==
    \A t \in Running : \A o \in Outcomes :
        (CheckedWith(t, o) \/ AddCheckedWith(t, o)) /\ HasUrl(db, t.checks[1].url) =>
            LET id == getAppByUrl(db, t.checks[1].url).id
                health == checkEnd(t.checks[1], o)
                after == HistoryOf(db', id)
            IN  /\ id \in AppIds(db')
                /\ Len(after) = Len(Rows(id)) + 1
                /\ Last(after).status = health.status
                /\ Last(after).response_time_ms = o.elapsed
                /\ db'.apps[id].status = health.status

\* C4: recordScan applies its two effects as one unit: the step that records
\* a result leaves the App with the status of the result and a newest history
\* entry holding that status and response time, and in every state each App
\* with a history has the status of its most recently recorded entry.
RecordScanAtomic == []StatusMatchesHistory /\ [][RecordScanUnit]_vars

\* An App has the offline status of its recorded entry while a health sweep
\* that snapshotted it is still in flight.
Witness_C4 ==
    \E id \in AppIds(db) : \E t \in Running :
        /\ Rows(id) # <<>>
        /\ Row(id).status = "offline"
        /\ Last(Rows(id)).response_time_ms = 7
        /\ t.kind \in {"health", "periodic"}
        /\ \E i \in DOMAIN t.checks : t.checks[i].url = Row(id).url

\* The n most recently recorded entries, newest first, n at most HistoryLimit.
NewestFirst(rows) ==
    [i \in 1..Min(Len(rows), HistoryLimit) |-> rows[Len(rows) + 1 - i]]

\* C5: getScanHistory returns the min(n, 50) most recently recorded entries
\* of an App, ordered from the most recently recorded to the least.
HistoryNewestFirst ==
    \A id \in AppIds(db) : getScanHistory(db, id) = {NewestFirst(Rows(id))}

\* C6: after removeApp(id) the App id is not found and has no history entry,
\* and every other App and its history are unchanged.
RemoveAppEffect ==
    [][\A id \in 1..db.seq :
          DeleteApp(id) =>
              /\ ~HasApp(db', id)
              /\ HistoryOf(db', id) = <<>>
              /\ \A j \in AppIds(db) \ {id} :
                    /\ HasApp(db', j)
                    /\ db'.apps[j] = Row(j)
                    /\ HistoryOf(db', j) = Rows(j)]_vars

\* An App has been removed and another App, with a history, is still there.
Witness_C6 ==
    /\ ops < MaxOps
    /\ Cardinality(AppIds(db)) < db.seq
    /\ \E j \in AppIds(db) : Rows(j) # <<>> /\ Row(j).status = "online"

\* C7 as stated: from online or offline the status of an App only moves to
\* online or offline.
OnceCheckedNeverUnknown ==
    [][\A id \in Surviving :
          Row(id).status \in Checkable => db'.apps[id].status \in Checkable]_vars

\* The outcomes of a check of url that check classifies as unknown: a
\* transport error other than refused or timed out on a port of the non-HTTP
\* list, and a response with a 1xx status code.
AmbiguousOutcome(o, url) ==
    \/ /\ o.kind = "error"
       /\ o.errCode \notin {"ECONNREFUSED", "ETIMEDOUT", "ECONNABORTED"}
       /\ ~o.hasResponse
       /\ url.port \in NON_HTTP_PORTS
    \/ /\ o.kind = "response"
       /\ o.statusCode < 200

\* C7 as amended: the status of an App moves from online or offline to
\* unknown only in a step that records a check of its url which ended with an
\* ambiguous outcome; every other step leaves it online or offline.
UnknownOnlyFromAmbiguousCheck ==
    [][\A id \in Surviving :
          Row(id).status \in Checkable /\ db'.apps[id].status \notin Checkable =>
              /\ db'.apps[id].status = "unknown"
              /\ \E t \in Running :
                    \/ \E o \in Outcomes :
                          /\ CheckedWith(t, o) \/ AddCheckedWith(t, o)
                          /\ t.checks[1].url = Row(id).url
                          /\ AmbiguousOutcome(o, Row(id).url)
                    \/ \E os \in [DOMAIN t.checks -> Outcomes] :
                          /\ SweepDoneWith(t, os)
                          /\ \E i \in DOMAIN t.checks :
                                /\ t.checks[i].url = Row(id).url
                                /\ AmbiguousOutcome(os[i], Row(id).url)]_vars

\* An App on a port of the non-HTTP list was online or offline and a later
\* check has set it to unknown.
Witness_C7 ==
    \E id \in AppIds(db) :
        /\ Row(id).url.port \in NON_HTTP_PORTS
        /\ Row(id).status = "unknown"
        /\ Len(Rows(id)) >= 2
        /\ Rows(id)[Len(Rows(id)) - 1].status \in Checkable
        /\ Last(Rows(id)).response_time_ms = 7

\* C8: the status of every App and of every history entry is one of unknown,
\* online, offline.
StatusEnumerated ==
    /\ \A id \in AppIds(db) : Row(id).status \in {"unknown", "online", "offline"}
    /\ \A i \in DOMAIN db.history : db.history[i].status \in {"unknown", "online", "offline"}

\* The history holds entries of each of the three statuses.
Witness_C8 ==
    \A st \in {"unknown", "online", "offline"} :
        \E i \in DOMAIN db.history : db.history[i].status = st

ProbeReturned == probe.call.status # "pending"

\* C9: for every HTTP response check receives, whatever its status code from
\* 100 to 599, the returned status is online.
AnyResponseOnline ==
    ProbeReturned /\ probe.outcome.kind = "response" => probe.call.status = "online"

\* C10: check returns (it does not raise) and classifies a transport error:
\* refused or timed out is offline whatever the port; any other is unknown when
\* the port of the url is in the non-HTTP list and offline otherwise.
TransportErrorClassified ==
    /\ ~ProbeReturned => ENABLED ProbeReturn
    /\ ProbeReturned /\ probe.outcome.kind = "error" /\ ~probe.outcome.hasResponse =>
          probe.call.status =
              IF probe.outcome.errCode \in {"ECONNREFUSED", "ETIMEDOUT", "ECONNABORTED"}
              THEN "offline"
              ELSE IF probe.url.port \in NON_HTTP_PORTS THEN "unknown"
              ELSE "offline"

\* A connection reset on port 8080, probed on the configured LAN host, has
\* been classified unknown.
Witness_C10 ==
    /\ ProbeReturned
    /\ probe.url = Http("localhost", 8080)
    /\ probe.targetHost = LanHost
    /\ probe.outcome.errCode = "ECONNRESET"
    /\ ~probe.outcome.hasResponse
    /\ probe.call.status = "unknown"

\* C11: checkAll returns one result per input app, at the index of the app
\* and with the url of the app (not the rewritten url the probe went to),
\* whatever order the checks returned in.
CheckAllKeepsInputOrder ==
    batch.pc = "resolved" =>
        /\ Len(batch.results) = Len(batch.urls)
        /\ \A i \in DOMAIN batch.urls :
              /\ batch.results[i].url = batch.urls[i]
              /\ batch.results[i].status \in {"online", "offline", "unknown"}

\* checkAll has returned for three apps, two of them probed on the LAN host
\* instead of 127.0.0.1, whose checks returned last first.
Witness_C11 ==
    /\ batch.pc = "resolved"
    /\ batch.targetHost = LanHost
    /\ batch.urls = <<U3000, Http("localhost", 5000), U8080>>
    /\ batch.order = <<3, 2, 1>>
    /\ batch.results[1].status = "online"
    /\ batch.results[3].status = "unknown"

TargetPorts == Range(Flatten(scan.batches))
Answers(q) == scan.env[q].http.responds \/ scan.env[q].https.responds
FirstAnswer(q) == IF scan.env[q].http.responds THEN "http" ELSE "https"
FirstReply(q) == IF scan.env[q].http.responds THEN scan.env[q].http ELSE scan.env[q].https

\* C12: when the scan has returned, every open port of the target set that
\* answered a GET on http or, failing that, on https, with any status code and
\* any body, is in the result with the first protocol that answered and the
\* title of that answer or null.
EveryHttpServerReported ==
    scan.pc = "done" =>
        \A q \in TargetPorts :
            scan.env[q].tcp = "open" /\ Answers(q) =>
                \E k \in DOMAIN scan.servers :
                    /\ scan.servers[k].port = q
                    /\ scan.servers[k].protocol = FirstAnswer(q)
                    /\ scan.servers[k].title =
                          IF FirstReply(q).data = "html" THEN "Page Title" ELSE NULL

\* C13: the servers found so far are ports of the target set that were
\* classified open and answered a GET, each at most once.
OnlyOpenHttpPortsReported ==
    scan.pc # "idle" =>
        /\ \A k \in DOMAIN scan.servers :
              LET q == scan.servers[k].port
              IN  /\ q \in TargetPorts
                  /\ scan.env[q].tcp = "open"
                  /\ scan.status[q] = "open"
                  /\ Answers(q)
        /\ \A k, l \in DOMAIN scan.servers :
              scan.servers[k].port = scan.servers[l].port => k = l

\* A full scan of two batches has returned one server: the other ports were a
\* port whose connect timed out although it serves HTTP, and an open port that
\* answers on neither protocol.
Witness_C13 ==
    /\ scan.pc = "done"
    /\ scan.mode = "full"
    /\ Len(scan.servers) = 1
    /\ scan.servers[1].port = portEnd
    /\ scan.env[portStart] = Behaviour("timeout", Reply(200, "html"), NoReply)
    /\ scan.env[portStart + 1] = Behaviour("open", NoReply, NoReply)

\* C14: in a quick or full scan, the step that ends the processing of one
\* discovered server, whether or not one of its operations failed, emits no
\* scan_error and goes on to the next discovered server, or after the last
\* one ends the scan with scan_complete.
ScanIsolatesServers ==
    [][\A t \in Running : \A o \in Outcomes :
          CheckedWith(t, o) /\ t.kind \in {"quick", "full"} =>
              /\ \A k \in DOMAIN emitted' : emitted'[k].type # "scan_error"
              /\ IF t.i < Len(t.urls)
                 THEN \E u \in BagToSet(tasks') :
                        u.kind = t.kind /\ u.urls = t.urls /\ u.i = t.i + 1
                 ELSE /\ emitted' # <<>>
                      /\ Last(emitted').type = "scan_complete"]_vars

\* C15: the step in which POST /api/health-check processes the results of its
\* sweep records, with recordScan, the result of every App of the sweep that
\* is still registered, whatever happens while one of them is processed.
SweepRecordsEveryResult ==
    [][\A t \in Running :
          t.kind = "health" =>
              \A os \in [DOMAIN t.checks -> Outcomes] :
                  SweepDoneWith(t, os) =>
                      \A i \in DOMAIN t.checks :
                          HasUrl(db, t.checks[i].url) =>
                              LET id == getAppByUrl(db, t.checks[i].url).id
                              IN  Len(HistoryOf(db', id)) = Len(Rows(id)) + 1]_vars

\* C16: the step in which a capture of a screenshot sweep ends emits exactly
\* one screenshot_updated event, for the App of the capture, with success
\* false when the capture failed; a failed capture leaves the Store as it
\* was; the sweep goes on to its next App and after the last one emits
\* screenshot_update_complete.
ShotSweepIsolatesCaptures ==
    [][\A t \in Running : \A c \in Captures : \A image \in Images :
          CapturedWith(t, c, image) =>
              /\ Cardinality({k \in DOMAIN emitted' :
                                /\ emitted'[k].type = "screenshot_updated"
                                /\ emitted'[k].id = t.ids[t.i]
                                /\ emitted'[k].ok = (c = "captured")}) = 1
              /\ c # "captured" => db' = db
              /\ IF t.i < Len(t.ids)
                 THEN \E u \in BagToSet(tasks') : u.ids = t.ids /\ u.i = t.i + 1
                 ELSE Last(emitted').type = "screenshot_update_complete"]_vars

\* The rules whose pattern matches the url of the call.
Matching == {k \in DOMAIN patterns : patternTest(patterns[k], ident.url)}

\* C17: identifyApp returns for every well-formed url, with a non-empty name
\* and category; when the collaborator failed or answered nothing parsable
\* the result is that of the first matching rule in table order, else the
\* name is taken from the page title, else it is the generic default.
IdentifyFallsBack ==
    /\ ident.pc = "calling" => ENABLED IdentReturns
    /\ ident.pc \in {"returned", "stored"} =>
          /\ Truthy(ident.result.name)
          /\ Truthy(ident.result.category)
          /\ ident.reply \in OllamaFailures =>
                IF Matching # {}
                THEN LET k == CHOOSE k \in Matching : \A j \in Matching : k <= j
                     IN  /\ ident.result.name = patterns[k].name
                         /\ ident.result.category = patterns[k].category
                ELSE IF Truthy(ident.title)
                THEN /\ ident.result.name = substring50(ident.title)
                     /\ ident.result.category = "Other"
                ELSE /\ ident.result.name = "Port " \o PortText(URL_port(ident.url))
                     /\ ident.result.category = "Unknown"

\* The collaborator timed out for port 8080, whose page has a title: the
\* rule of the port won over the title.
Witness_C17 ==
    /\ ident.pc = "returned"
    /\ ident.reply.kind = "unavailable"
    /\ ident.url = U8080
    /\ ident.title = "My Dashboard"
    /\ ident.result.name = "Tomcat/Java App"

RulePorts == {patterns[k].port : k \in DOMAIN patterns}

\* C18: with the collaborator unavailable and no page title, a url whose port
\* is not a port of the rule table is identified as 'Port N', N being its
\* port, with category 'Unknown', and the App stored for it has that name and
\* category.
UnknownPortGetsDefault ==
    ( /\ ident.pc = "stored"
      /\ ident.reply.kind = "unavailable"
      /\ ~Truthy(ident.title)
      /\ ident.url.port \notin RulePorts ) =>
        /\ ident.result.name = "Port " \o ToString(ident.url.port)
        /\ ident.result.category = "Unknown"
        /\ getAppByUrl(db, ident.url).name = ident.result.name
        /\ getAppByUrl(db, ident.url).category = ident.result.category

\* C19: getStats returns the number of Apps as total and the number of Apps
\* of each status as online, offline and unknown, which add up to total.
StatsAddUp ==
    LET stats == getStats(db)
        Having(st) == {id \in AppIds(db) : Row(id).status = st}
    IN  /\ stats.total = Cardinality(AppIds(db))
        /\ stats.online = Cardinality(Having("online"))
        /\ stats.offline = Cardinality(Having("offline"))
        /\ stats.unknown = Cardinality(Having("unknown"))
        /\ stats.total = stats.online + stats.offline + stats.unknown

\* After a removal the Store holds an online, checked App and nothing else.
Witness_C19 ==
    /\ db.seq = 2
    /\ getStats(db) = [total |-> 1, online |-> 1, offline |-> 0, unknown |-> 0]
    /\ db.history # <<>>

\* C20: broadcast delivers the event once to every observer connected at
\* that moment and to no other; with no observer connected it changes
\* nothing; connecting or disconnecting delivers nothing, so an observer
\* never receives an event emitted while it was away.
EmitReachesConnectedOnly ==
    [][/\ \A type \in EventTypes :
            Broadcast(Plain(type)) =>
                /\ hub'.connected = hub.connected
                /\ \A o \in Observers :
                      hub'.inbox[o] = IF o \in hub.connected
                                      THEN Append(hub.inbox[o], Plain(type))
                                      ELSE hub.inbox[o]
                /\ hub.connected = {} => hub' = hub
       /\ \A o \in Observers :
            Connect(o) \/ Disconnect(o) => hub'.inbox = hub.inbox]_vars

\* An observer that connected after two events holds only the third, which
\* the observer connected from the start received after the other two.
Witness_C20 ==
    /\ hub.connected = Observers
    /\ Len(hub.inbox["dashboard 1"]) = 3
    /\ Len(hub.inbox["dashboard 2"]) = 1
    /\ hub.inbox["dashboard 2"][1] = hub.inbox["dashboard 1"][3]

\* A :id text that is a decimal integer.
ValidId(chars) == chars # <<>> /\ \A k \in DOMAIN chars : chars[k] \in Digits

\* C21: the step that handles a POST /api/apps without url, or a DELETE
\* /api/apps/:id whose :id is no decimal integer, answers with a 4xx status
\* code, leaves the Store as it was and emits no event.
BadRequestsRefused ==
    [][(AddWithoutUrl \/ \E param \in IdParams : ~ValidId(param) /\ DeleteRequest(param)) =>
          /\ answer' \in 400..499
          /\ db' = db
          /\ emitted' = <<>>]_vars

\* C22: at every moment of a call of scan() or quickScan() at most
\* `concurrency` connection attempts are in flight, all for ports of the
\* current batch, and every port of the batches before it has been classified.
ConnectsBounded ==
    scan.pc # "idle" =>
        /\ Cardinality(scan.pending) <= concurrency
        /\ scan.pending # {} =>
              /\ scan.pending \subseteq Range(scan.batches[scan.b])
              /\ \A b \in 1..(scan.b - 1) : \A q \in Range(scan.batches[b]) :
                    scan.status[q] # "pending"

\* The scan requests in flight in bag b.
RECURSIVE SumCopies(_, _)
SumCopies(S, b) ==
    IF S = {} THEN 0
    ELSE LET t == CHOOSE t \in S : TRUE IN CopiesIn(t, b) + SumCopies(S \ {t}, b)
ScansRunning(b) == SumCopies({t \in BagToSet(b) : t.kind \in {"quick", "full"}}, b)

Count(events, types) == Cardinality({k \in DOMAIN events : events[k].type \in types})
Terminal == {"scan_complete", "scan_error"}

\* Every step accounts for the scans: one more in flight per scan_start it
\* emits, one less per terminal event; a terminal event is the last event of
\* its step, and app_discovered is emitted by a step of a scan in flight.
ScanEventsAccounted ==
    /\ ScansRunning(tasks') =
          ScansRunning(tasks) + Count(emitted', {"scan_start"}) - Count(emitted', Terminal)
    /\ Count(emitted', Terminal) <= 1
    /\ \A k \in DOMAIN emitted' : emitted'[k].type \in Terminal => k = Len(emitted')
    /\ Count(emitted', {"app_discovered"}) > 0 =>
          \E t \in Running :
              /\ t.kind \in {"quick", "full"}
              /\ t.pc = "check"
              /\ CopiesIn(t, tasks') < CopiesIn(t, tasks)

\* C23: when every await of the handlers returns, a scan that emitted
\* scan_start emits a terminal event in the end; the scans in flight are
\* those that emitted scan_start and no terminal event yet, so each emits
\* one terminal event, scan_complete or scan_error, and nothing after it.
ScanEndsOnce ==
    /\ [][ScanEventsAccounted]_vars
    /\ (Count(emitted, {"scan_start"}) > 0) ~> (Count(emitted, Terminal) > 0)
    /\ <>[](ScansRunning(tasks) = 0)

\* A scan has discovered two servers and ended with scan_complete.
Witness_C23 ==
    /\ tasks = EmptyBag
    /\ Types(emitted) = <<"app_discovered", "scan_complete">>
    /\ emitted[2].n = 2

\* The steps of a scan over n servers from server i on, in the order of the
\* pipeline.
RECURSIVE ServerPipeline(_, _)
ServerPipeline(i, n) ==
    IF i > n THEN <<>>
    ELSE <<Step("identifyApp", i), Step("addApp", i), Step("check", i),
           Step("recordScan", i), Step("app_discovered", i)>> \o ServerPipeline(i + 1, n)

IsPrefix(s, t) == Len(s) <= Len(t) /\ s = SubSeq(t, 1, Len(s))

\* The scan requests in flight follow the pipeline.
ScansFollowPipeline ==
    \A t \in Running :
        t.kind \in {"quick", "full"} => IsPrefix(t.log, ServerPipeline(1, Len(t.urls)))

\* The step that broadcasts app_discovered does so for the server whose
\* check it awaited, after its recordScan, as the next steps of the pipeline.
DiscoveryEndsPipeline ==
    \A t \in Running : \A o \in Outcomes :
        ( /\ CheckedWith(t, o)
          /\ t.kind \in {"quick", "full"}
          /\ Count(emitted', {"app_discovered"}) > 0 ) =>
            /\ IsPrefix(t.log \o stepsToEvent(t.i, TRUE), ServerPipeline(1, Len(t.urls)))
            /\ Len(t.log) = 5 * (t.i - 1) + 3
            /\ emitted'[1].type = "app_discovered"
            /\ emitted'[1].url = t.urls[t.i]
            /\ db' = recordScan(db, t.urls[t.i], checkEnd(t.checks[1], o).status,
                                o.elapsed, clock)

\* C24: within one scan the steps for each server are identification,
\* addApp, health check, recordScan, app_discovered, in that order, and the
\* steps for a server start after app_discovered of the server before it.
PipelineInOrder == []ScansFollowPipeline /\ [][DiscoveryEndsPipeline]_vars

\* A quick scan awaits the check of its second server, the first one having
\* gone through the whole pipeline.
Witness_C24 ==
    \E t \in Running :
        /\ t.kind = "quick" /\ t.pc = "check" /\ t.i = 2
        /\ Len(t.log) = 8
        /\ t.log[5] = Step("app_discovered", 1)

\* Whether a reply makes checkHttpServer return a DiscoveredServer.
Yields(reply) == reply.responds /\ ~extractTitleThrows(reply.data)

\* The servers a call over ports finds on a host that behaves as env.
RECURSIVE ServersOf(_, _)
ServersOf(ports, env) ==
    IF ports = <<>> THEN <<>>
    ELSE LET q == Head(ports)
             found == IF env[q].tcp # "open" THEN <<>>
                      ELSE IF Yields(env[q].http)
                      THEN <<DiscoveredServer(q, "http", env[q].http)>>
                      ELSE IF Yields(env[q].https)
                      THEN <<DiscoveredServer(q, "https", env[q].https)>>
                      ELSE <<>>
         IN  found \o ServersOf(Tail(ports), env)

\* C25: in a call of scan() or quickScan() every target port gets one
\* connection attempt; only a port classified open gets GETs, at most one on
\* http and at most one on https, the latter only after the former yielded no
\* DiscoveredServer; and what the call returns is determined by the ports as
\* they behave during the call, whatever calls came before.
ScanProbesOnce ==
    scan.pc # "idle" =>
        /\ \A q \in TargetPorts :
              /\ scan.connects[q] = IF scan.status[q] = "pending" /\ q \notin scan.pending
                                    THEN 0 ELSE 1
              /\ scan.gets[q].http <= 1
              /\ scan.gets[q].https <= 1
              /\ scan.gets[q].http > 0 => scan.status[q] = "open"
              /\ scan.gets[q].https > 0 =>
                    /\ scan.gets[q].http = 1
                    /\ ~Yields(scan.env[q].http)
                    /\ \A k \in DOMAIN scan.servers :
                          scan.servers[k].port = q => scan.servers[k].protocol = "https"
        /\ scan.pc = "done" =>
              /\ \A q \in TargetPorts : scan.connects[q] = 1
              /\ scan.servers = ServersOf(Flatten(scan.batches), scan.env)

\* A second call has returned two servers, one of them found on https after
\* its http GET yielded none.
Witness_C25 ==
    /\ scan.pc = "done"
    /\ scan.calls = 2
    /\ Len(scan.servers) = 2
    /\ \E k \in DOMAIN scan.servers :
          /\ scan.servers[k].protocol = "https"
          /\ scan.gets[scan.servers[k].port] = [http |-> 1, https |-> 1]

\* The handlers whose check, or checks, return in the step.
Returned ==
    {t \in Running : t.pc \in {"check", "checking"} /\ CopiesIn(t, tasks') < CopiesIn(t, tasks)}

\* The ids of the Apps handler t held when it started its checks: the
\* snapshot of a sweep, the row addApp returned in a scan or POST /api/apps.
Snapshot(t) == IF t.kind \in {"health", "periodic"} THEN Range(t.ids) ELSE {t.app.id}

\* The urls handler t has a check in flight for.
CheckedUrls(t) == {t.checks[i].url : i \in DOMAIN t.checks}

\* The scan-history entries the step appends.
NewEntries == {db'.history[k] : k \in (Len(db.history) + 1)..Len(db'.history)}

HistoryReferencesApp == \A k \in DOMAIN db.history : db.history[k].app_id \in AppIds(db)

\* The recordScan calls of a returning handler create no App, and history
\* entries only for Apps the handler held that still exist.
LateRecordScan ==
    \A t \in Returned :
        /\ AppIds(db') = AppIds(db)
        /\ \A e \in NewEntries : e.app_id \in Snapshot(t) \cap AppIds(db)

\* The same, recordScan being keyed by url: entries only for Apps that are
\* registered under a url the handler checked when its checks return.
RecordScanByUrl ==
    \A t \in Returned :
        /\ AppIds(db') = AppIds(db)
        /\ \A e \in NewEntries :
              e.app_id \in AppIds(db) /\ db.apps[e.app_id].url \in CheckedUrls(t)
        /\ (\A url \in CheckedUrls(t) : ~HasUrl(db, url)) => db' = db

\* An App that appears gets an id no App had before, and has no history.
FreshId ==
    \A id \in AppIds(db') \ AppIds(db) : id > db.seq /\ HistoryOf(db', id) = <<>>

\* C26: every scan-history entry references an existing App; the late
\* recordScan of a scan or sweep whose App was removed while it was in flight
\* creates neither a history entry nor an App; a url registered again gets a
\* fresh id without history.
RemovedAppGetsNoHistory ==
    []HistoryReferencesApp /\ [][LateRecordScan /\ FreshId]_vars

\* What holds of it: references stay valid, ids are fresh, and a returning
\* check is recorded for the App its url has at that moment, if any.
HistoryStaysAttached ==
    []HistoryReferencesApp /\ [][RecordScanByUrl /\ FreshId]_vars

\* The scan requests whose await ends in the step.
ScansResumed ==
    {t \in Running : t.kind \in {"quick", "full"} /\ CopiesIn(t, tasks') < CopiesIn(t, tasks)}

\* The app_discovered broadcasts a log records.
Discoveries(log) == Cardinality({k \in DOMAIN log : log[k][1] = "app_discovered"})

\* C27: the found field of a scan_complete event equals the number of
\* servers the port probe of its scan returned and the number of
\* app_discovered events that scan has broadcast since its scan_start, one
\* per server whether or not its url was registered before.
FoundCountsDiscoveries ==
    [][ /\ \A t \in ScansResumed :
              t.pc = "check" /\ Count(emitted', {"scan_error"}) = 0
                  => Count(emitted', {"app_discovered"}) = 1
        /\ \A k \in DOMAIN emitted' :
              emitted'[k].type = "scan_complete" =>
                  \E t \in ScansResumed :
                      /\ emitted'[k].n = Len(t.urls)
                      /\ t.pc = "probe" => t.urls = <<>> /\ emitted'[k].n = 0
                      /\ Discoveries(t.log) + Count(emitted', {"app_discovered"})
                            = emitted'[k].n ]_vars

\* A quick or full scan completes with two servers found, the url of the
\* last one registered and checked before the scan saw it.
Witness_C27 ==
    \E k \in DOMAIN emitted :
        /\ emitted[k].type = "scan_complete"
        /\ emitted[k].n = 2
        /\ k > 1
        /\ emitted[k - 1].type = "app_discovered"
        /\ emitted[k - 1].status # "unknown"

\* The manual health sweeps whose checks return in the step.
SweepsReturned == {t \in Returned : t.kind = "health"}

\* C28: a health_check_complete event follows one health_update per App of
\* the snapshot of its sweep, in snapshot order and with the status recorded
\* for the App; its online is the number of those with status online, its
\* offline the number of all others, unknown included, so that they add up
\* to the size of the snapshot.
HealthCompleteCounts ==
    [][ \A k \in DOMAIN emitted' :
            emitted'[k].type = "health_check_complete" =>
                \E t \in SweepsReturned :
                    LET n == Len(t.ids)
                        Updates(S) == Cardinality({i \in 1..n : emitted'[i].status \in S})
                    IN  /\ k = n + 1
                        /\ Len(emitted') = k
                        /\ \A i \in 1..n :
                              /\ emitted'[i].type = "health_update"
                              /\ emitted'[i].url = t.checks[i].url
                              /\ emitted'[i].status \in {"online", "offline", "unknown"}
                              /\ HasApp(db, t.ids[i]) =>
                                    /\ db.apps[t.ids[i]].url = emitted'[i].url
                                    /\ db'.apps[t.ids[i]].status = emitted'[i].status
                        /\ emitted'[k].n = Updates({"online"})
                        /\ emitted'[k].m = Updates({"offline", "unknown"})
                        /\ emitted'[k].n + emitted'[k].m = n ]_vars

\* A manual sweep over two Apps completes with one of them online and the
\* other one unknown.
Witness_C28 ==
    /\ Len(emitted) = 3
    /\ emitted[3].type = "health_check_complete"
    /\ emitted[3].n = 1
    /\ emitted[3].m = 1
    /\ \E i \in 1..2 : emitted[i].status = "unknown"

AppAnnouncements == {"app_discovered", "app_added"}

\* The row of a new App is the one the handler that registered it holds
\* while it awaits the seeding check: status unknown, never checked.
NewRowHeld ==
    \A id \in AppIds(db') \ AppIds(db) :
        /\ db'.apps[id].status = "unknown"
        /\ db'.apps[id].last_checked_at = NoTime
        /\ (\A t \in Running : t.kind = "identify" => t \in BagToSet(tasks'))
              => \E t \in BagToSet(tasks') : t.pc = "check" /\ t.app = db'.apps[id]

\* An announcement carries the row its handler holds since addApp returned;
\* a row that was never checked then is announced with status unknown.
PayloadIsAddAppRow(e) ==
    \E t \in Returned :
        /\ t.pc = "check"
        /\ e.id = t.app.id
        /\ e.url = t.app.url
        /\ e.status = t.app.status
        /\ t.app.last_checked_at = NoTime => e.status = "unknown"

\* The Store holds the check recorded in the step for the announced App.
StoreHoldsCheck(e) ==
    /\ db'.apps[e.id].last_checked_at = clock
    /\ Len(HistoryOf(db', e.id)) = Len(HistoryOf(db, e.id)) + 1
    /\ db'.apps[e.id].status = Last(HistoryOf(db', e.id)).status

HeaderHost(req) == IF req.forwarded # <<>> THEN req.forwarded[1] ELSE req.host

\* h is an IPv4 literal of 192.168.0.0/16: four decimal groups of at most 255.
IsLanLiteral(h) ==
    /\ h.name = ""
    /\ Len(h.groups) = 4
    /\ h.groups[1] = 192 /\ h.groups[2] = 168
    /\ h.groups[3] <= 255 /\ h.groups[4] <= 255

\* h is matched by the pattern 192.168.<1-3 digits>.<1-3 digits>.
IsLanPattern(h) ==
    /\ h.name = ""
    /\ Len(h.groups) = 4
    /\ h.groups[1] = 192 /\ h.groups[2] = 168
    /\ h.groups[3] <= 999 /\ h.groups[4] <= 999

Unset(host) == ~Truthy(host) \/ host = "localhost"

\* The step is a POST /api/ui/config that stores a targetHost.
ConfigPosted == \E host \in ConfigBodies : Truthy(host) /\ PostUiConfig(host)

\* No step changes the url of an App.
UrlsKept == \A id \in Surviving : db'.apps[id].url = db.apps[id].url

\* C30: a step that changes config.targetHost is a POST /api/ui/config, or
\* targetHost was unset or 'localhost' and becomes the 192.168.x.x IPv4
\* literal of the forwarded-host or Host header of a request; the url stored
\* for an App never changes.
TargetHostLearntFromLanLiteral ==
    [][ /\ targetHost' # targetHost =>
              \/ ConfigPosted
              \/ /\ Unset(targetHost)
                 /\ \E req \in HostRequests :
                       /\ IsLanLiteral(HeaderHost(req))
                       /\ targetHost' = hostOnly(HeaderHost(req))
        /\ UrlsKept ]_vars

\* The same with the header matched by the pattern of the code, which also
\* lets groups of three digits above 255 through.
TargetHostLearntFromLanPattern ==
    [][ /\ targetHost' # targetHost =>
              \/ ConfigPosted
              \/ /\ Unset(targetHost)
                 /\ \E req \in HostRequests :
                       /\ IsLanPattern(HeaderHost(req))
                       /\ targetHost' = hostOnly(HeaderHost(req))
        /\ UrlsKept ]_vars

====
